---- MODULE Spec2Model ----
(***************************************************************************)
(* Model of the LEDCommander connection supervisor                         *)
(* (src/core/controller.py, class BleDeviceController).                    *)
(*                                                                         *)
(* One background worker runs _main_loop; the UI thread calls start, stop, *)
(* set_mode and request_disconnect and may interleave with the worker at   *)
(* every step.  Durations are integers in milliseconds (5.0 s = 5000).     *)
(***************************************************************************)
EXTENDS Integers, Sequences, FiniteSets, TLC

VARIABLES
    pc,                   \* position of the worker inside _run_event_loop/_main_loop
    is_running,           \* self.is_running
    auto_reconnect,       \* self.auto_reconnect
    reconnect_interval,   \* self.reconnect_interval (ms)
    current_backoff,      \* self.current_backoff (ms)
    reconnect_count,      \* local reconnect_count of _main_loop
    current_mode,         \* self.current_mode
    force_disconnect,     \* self.force_disconnect
    status_is_connected,  \* self.status.is_connected
    status_error_message, \* self.status.error_message
    client,               \* self.client
    link_up,              \* client.is_connected of the transport of this cycle
    device_driver,        \* self.device_driver: "none", "bound" (created), "connected"
    sleep_for,            \* argument of the asyncio.sleep the worker is suspended in (0: none)
    i,                    \* loop index of _execute_breath_mode
    idx,                  \* idx of _execute_rainbow_mode
    exit_reason,          \* history: why the communication loop was left last
    paused,               \* history: a delay elapsed since the connection cycle ended
    stale_frames,         \* history: frames an animation wrote while another mode was selected
    fail_streak,          \* history: consecutive cycles that ended in the recovery path
    raised,               \* history: the exception the worker's latest step caught in _main_loop
    callback,             \* history: outcome of the callback the worker's latest step invoked
    telemetry             \* history: outcome of the RSSI read or CPU sample of the worker's latest step

vars == <<pc, is_running, auto_reconnect, reconnect_interval, current_backoff,
          reconnect_count, current_mode, force_disconnect, status_is_connected,
          status_error_message, client, link_up, device_driver,
          sleep_for, i, idx, exit_reason, paused, stale_frames, fail_streak,
          raised, callback, telemetry>>

----------------------------------------------------------------------------
(* Program constants *)

backoff_factor == 2
backoff_max == 300000
MinInterval == 1000
max_reconnect_attempts == 10
ShortDelay == 5000
CoolDown == 30000
FixedDelay == 5000
PaletteLen == 7
SleepQuantum == 100

(* Bounds of the exploration *)

\* frames of one _execute_breath_mode call; the source iterates range(0, 314)
BreathSteps == 3
\* cap of the history counter fail_streak
MaxStreak == 3

Modes == {"MANUAL", "CPU", "BREATH", "RAINBOW"}

Min(a, b) == IF a < b THEN a ELSE b
Max(a, b) == IF a > b THEN a ELSE b

----------------------------------------------------------------------------
(* Backoff policy *)

\* __init__: self.reconnect_interval = max(1.0, float(reconnect_interval))
ClampInterval(x) == Max(MinInterval, x)

\* min(self.backoff_max, max(self.current_backoff * self.backoff_factor, self.reconnect_interval))
Grow(cb, base) == Min(backoff_max, Max(cb * backoff_factor, base))

\* variant: the sleep is not capped by the ceiling
RecoverySleep_Uncapped(auto, cb) == IF auto THEN cb ELSE FixedDelay

\* sleep_for = min(self.current_backoff, self.backoff_max) / asyncio.sleep(5)
RecoverySleep(auto, cb) == IF auto THEN Min(cb, backoff_max) ELSE FixedDelay

\* variant: the backoff grows whether or not auto-reconnect is on
FailureBackoff_Always(auto, cb, base) == Grow(cb, base)

\* backoff after a failure step: grown only under auto-reconnect
FailureBackoff(auto, cb, base) == IF auto THEN Grow(cb, base) ELSE cb

\* variant: a successful discovery leaves the backoff as it is
DiscoveryBackoff_NoReset(cb, base) == cb

\* self.current_backoff = float(self.reconnect_interval) on successful discovery
DiscoveryBackoff(cb, base) == base

\* variant: the cool-down already starts at the 10th miss
MissDelay_OffByOne(n) == IF n >= max_reconnect_attempts THEN CoolDown ELSE ShortDelay

\* delay after the n-th consecutive discovery miss
MissDelay(n) == IF n > max_reconnect_attempts THEN CoolDown ELSE ShortDelay

\* the miss counter once the delay has elapsed
MissCountAfter(n) == IF n > max_reconnect_attempts THEN 0 ELSE n

----------------------------------------------------------------------------
(* Driver factory: core/drivers/device_factory.py and the four drivers'
   can_handle_device; BleDeviceController._initialize_driver *)

VARIABLES
    DRIVER_REGISTRY,     \* _DRIVER_REGISTRY: protocol name -> driver class
    DETECTION_ORDER,     \* _DETECTION_ORDER: list of driver classes
    call_op,             \* the factory operation called last
    call_protocol,       \* its protocol name argument ("" is None or empty)
    call_device,         \* its device argument
    ret_driver,          \* class of the driver it returned or bound, or "none"
    ret_error,           \* the error it raised, or "none"
    ret_available,       \* the names listed in an unknown-protocol error
    last_reg_name,       \* arguments of the latest register_driver call
    last_reg_class,
    write_char_uuid,     \* device_config.write_char_uuid
    config_protocol,     \* device_config.protocol ("" is None)
    target_mac           \* device_config.target_mac

fvars == <<DRIVER_REGISTRY, DETECTION_ORDER, call_op, call_protocol,
           call_device, ret_driver, ret_error, ret_available, last_reg_name,
           last_reg_class, write_char_uuid, config_protocol, target_mac>>

\* str.upper(), str.lower(), str.strip() and the substring test "t in s"
LowerLetters == "abcdefghijklmnopqrstuvwxyz"
UpperLetters == "ABCDEFGHIJKLMNOPQRSTUVWXYZ"
AlphabetLen == Len(LowerLetters)

Char(s, k) == SubSeq(s, k, k)

ToUpper ==
    [c \in {Char(LowerLetters, k) : k \in 1..AlphabetLen} |->
        Char(UpperLetters, CHOOSE k \in 1..AlphabetLen : Char(LowerLetters, k) = c)]

ToLower ==
    [c \in {Char(UpperLetters, k) : k \in 1..AlphabetLen} |->
        Char(LowerLetters, CHOOSE k \in 1..AlphabetLen : Char(UpperLetters, k) = c)]

RECURSIVE Upper(_)
Upper(s) ==
    IF s = "" THEN ""
    ELSE (IF Char(s, 1) \in DOMAIN ToUpper THEN ToUpper[Char(s, 1)]
          ELSE Char(s, 1)) \o Upper(SubSeq(s, 2, Len(s)))

\* str.lower(): every character lowered, the two halves of a long text
\* one after the other
RECURSIVE Lower(_)
Lower(s) ==
    IF s = "" THEN ""
    ELSE IF Len(s) = 1 THEN (IF s \in DOMAIN ToLower THEN ToLower[s] ELSE s)
    ELSE LET half == Len(s) \div 2
         IN  Lower(SubSeq(s, 1, half)) \o Lower(SubSeq(s, half + 1, Len(s)))

IsSpace(c) == c = " " \/ c = "\t" \/ c = "\n"

RECURSIVE Strip(_)
Strip(s) ==
    IF s = "" THEN ""
    ELSE IF IsSpace(Char(s, 1)) THEN Strip(SubSeq(s, 2, Len(s)))
    ELSE IF IsSpace(Char(s, Len(s))) THEN Strip(SubSeq(s, 1, Len(s) - 1))
    ELSE s

Contains(s, t) ==
    \E k \in 1..(Len(s) - Len(t) + 1) : SubSeq(s, k, k + Len(t) - 1) = t

\* the characteristic UUIDs of the drivers
ELK_WRITE_CHAR_UUID == "0000fff3-0000-1000-8000-00805f9b34fb"
TRIONES_WRITE_CHAR_UUID == "0000ffd9-0000-1000-8000-00805f9b34fb"
TRIONES_ALTERNATIVE_UUID == "0000ffd5-0000-1000-8000-00805f9b34fb"
MAGICHOME_WRITE_CHAR_UUID == "0000ffe5-0000-1000-8000-00805f9b34fb"
MAGICHOME_ALTERNATIVE_UUID == "0000ffe9-0000-1000-8000-00805f9b34fb"
TUYA_WRITE_CHAR_UUID == "0000fe95-0000-1000-8000-00805f9b34fb"
TUYA_ALTERNATIVE_UUID == "0000fe40-0000-1000-8000-00805f9b34fb"
TUYA_SERVICE_UUID == "0000fe95-0000-1000-8000-00805f9b34fb"

\* "if device_name:" and "any(keyword in name_upper for keyword in ...)"
NameHas(name, keywords) ==
    name # "" /\ \E kw \in keywords : Contains(Upper(name), kw)

\* a detector that never looks at the advertised UUIDs
UuidHas_Never(uuids, fragments) == FALSE

\* "for uuid in service_uuids: if fragment in str(uuid).lower()"
UuidHas(uuids, fragments) ==
    \E k \in 1..Len(uuids) : \E f \in fragments : Contains(Lower(uuids[k]), f)

\* ElkBledomDriver.can_handle_device
ElkCanHandle(name, uuids) ==
    \/ NameHas(name, {"ELK", "BLEDOM"})
    \/ UuidHas(uuids, {Lower(ELK_WRITE_CHAR_UUID)})

\* TrionesDriver.can_handle_device
TrionesCanHandle(name, uuids) ==
    \/ NameHas(name, {"TRIONES", "TRION"})
    \/ UuidHas(uuids, {Lower(TRIONES_WRITE_CHAR_UUID),
                       Lower(TRIONES_ALTERNATIVE_UUID), "ffd9", "ffd5"})

\* MagicHomeDriver.can_handle_device
MagicHomeCanHandle(name, uuids) ==
    \/ NameHas(name, {"MAGIC", "MAGICHOME", "MH-"})
    \/ UuidHas(uuids, {Lower(MAGICHOME_WRITE_CHAR_UUID),
                       Lower(MAGICHOME_ALTERNATIVE_UUID), "ffe5", "ffe9"})

\* TuyaDriver.can_handle_device
TuyaCanHandle(name, uuids) ==
    \/ NameHas(name, {"TUYA", "TY-", "SMART LIFE", "SMARTLIFE"})
    \/ UuidHas(uuids, {Lower(TUYA_WRITE_CHAR_UUID),
                       Lower(TUYA_ALTERNATIVE_UUID),
                       Lower(TUYA_SERVICE_UUID), "fe95", "fe40"})

\* driver_class.can_handle_device; MockDriver is the subclass of
\* ElkBledomDriver that the factory's tests register
CanHandle(cls, name, uuids) ==
    CASE cls = "TrionesDriver" -> TrionesCanHandle(name, uuids)
      [] cls = "MagicHomeDriver" -> MagicHomeCanHandle(name, uuids)
      [] cls = "TuyaDriver" -> TuyaCanHandle(name, uuids)
      [] cls = "ElkBledomDriver" -> ElkCanHandle(name, uuids)
      [] cls = "MockDriver" -> ElkCanHandle(name, uuids)

\* get_write_characteristic_uuid of an instance of the class
WriteUuidOf(cls) ==
    CASE cls = "TrionesDriver" -> TRIONES_WRITE_CHAR_UUID
      [] cls = "MagicHomeDriver" -> MAGICHOME_WRITE_CHAR_UUID
      [] cls = "TuyaDriver" -> TUYA_WRITE_CHAR_UUID
      [] cls = "ElkBledomDriver" -> ELK_WRITE_CHAR_UUID
      [] cls = "MockDriver" -> ELK_WRITE_CHAR_UUID

\* the calls made on the factory: BLEDevice(name, metadata['uuids']); a name
\* of "" stands for a device that advertises no name (None)
Device(name, uuids) == [present |-> TRUE, name |-> name, uuids |-> uuids]
NoDevice == [present |-> FALSE, name |-> "", uuids |-> <<>>]

Devices ==
    { Device("Triones-1234", <<>>),
      Device("Triones LED Controller", <<>>),
      Device("MagicHome Strip", <<>>),
      Device("Magic Tuya LIGHT", <<>>),
      Device("TY-RGB", <<TUYA_WRITE_CHAR_UUID>>),
      Device("ELK-BLEDOM", <<>>),
      Device("elk-bledom Triones", <<ELK_WRITE_CHAR_UUID>>),
      Device("Unknown Device", <<TRIONES_WRITE_CHAR_UUID>>),
      Device("Unknown Device", <<"0000FFE5-0000-1000-8000-00805F9B34FB">>),
      Device("Unknown Device", <<TUYA_WRITE_CHAR_UUID>>),
      Device("Unknown Device", <<ELK_WRITE_CHAR_UUID>>),
      Device("Unknown Device", <<MAGICHOME_WRITE_CHAR_UUID, TRIONES_WRITE_CHAR_UUID>>),
      Device("", <<TUYA_ALTERNATIVE_UUID, MAGICHOME_ALTERNATIVE_UUID>>),
      Device("", <<>>),
      Device("RGB LED Controller", <<>>),
      Device("Ctrl light", <<"0000180a-0000-1000-8000-00805f9b34fb">>),
      Device("Completely Unknown Device", <<>>),
      Device("Completely Unknown Device", <<"0000180a-0000-1000-8000-00805f9b34fb">>) }

ProtocolNames ==
    {"elk_bledom", "ELK", "Triones", " magic ", "tuya", "mock", " Mock ",
     "unknown_protocol", "   "}

\* (protocol_type, device) argument pairs; "" is a missing protocol_type
CreateArgs ==
    {<<p, d>> : p \in ProtocolNames,
                d \in {NoDevice, Device("Triones-1234", <<>>),
                       Device("Completely Unknown Device", <<>>)}}
    \cup {<<"", d>> : d \in Devices \cup {NoDevice}}

\* (device_config.protocol, discovered device) pairs
InitializeArgs ==
    {<<p, d>> : p \in ProtocolNames,
                d \in {Device("Triones-1234", <<>>),
                       Device("Completely Unknown Device", <<>>)}}
    \cup {<<"", d>> : d \in Devices}


\* the registry and the detection order at import time
InitialRegistry ==
    [k \in {"elk_bledom", "elk", "bledom", "triones", "magichome",
            "magic_home", "magic", "tuya"} |->
        CASE k \in {"elk_bledom", "elk", "bledom"} -> "ElkBledomDriver"
          [] k = "triones" -> "TrionesDriver"
          [] k \in {"magichome", "magic_home", "magic"} -> "MagicHomeDriver"
          [] k = "tuya" -> "TuyaDriver"]

InitialDetectionOrder ==
    <<"TrionesDriver", "MagicHomeDriver", "TuyaDriver", "ElkBledomDriver">>

DriverClasses ==
    {"TrionesDriver", "MagicHomeDriver", "TuyaDriver", "ElkBledomDriver",
     "MockDriver"}

\* the detectors' answers for the devices above, computed once
Fingerprint ==
    [d \in Devices |->
        [cls \in DriverClasses |-> CanHandle(cls, d.name, d.uuids)]]

GenericKeywords == {"LED", "RGB", "CTRL", "LIGHT"}

\* a fallback that compares the name as advertised, without upper()
HasGenericKeyword_CaseSensitive(name) ==
    name # "" /\ \E kw \in GenericKeywords : Contains(name, kw)

\* _detect_driver: the generic-keyword fallback
HasGenericKeyword(name) == NameHas(name, GenericKeywords)

\* the fallback's answers for the devices above, computed once
GenericFingerprint == [d \in Devices |-> HasGenericKeyword(d.name)]

Outcome(cls, err, avail) == [driver |-> cls, error |-> err, available |-> avail]

\* a detection that tries the generic-keyword fallback before the detectors
DetectDriver_GenericFirst(device, order) ==
    LET hits == {k \in 1..Len(order) : Fingerprint[device][order[k]]}
    IN  IF GenericFingerprint[device]
        THEN Outcome("ElkBledomDriver", "none", {})
        ELSE IF hits # {}
        THEN Outcome(order[CHOOSE k \in hits : \A h \in hits : k <= h], "none", {})
        ELSE Outcome("none", "could_not_detect", {})

\* DeviceFactory._detect_driver
DetectDriver(device, order) ==
    LET hits == {k \in 1..Len(order) : Fingerprint[device][order[k]]}
    IN  IF hits # {}
        THEN Outcome(order[CHOOSE k \in hits : \A h \in hits : k <= h], "none", {})
        ELSE IF GenericFingerprint[device]
        THEN Outcome("ElkBledomDriver", "none", {})
        ELSE Outcome("none", "could_not_detect", {})

\* a lookup key that is lowercased only
LookupKey_NoStrip(protocol_type) == Lower(protocol_type)

\* create_driver: protocol_lower = protocol_type.lower().strip()
LookupKey(protocol_type) == Strip(Lower(protocol_type))

\* DeviceFactory.create_driver(protocol_type, device)
CreateDriverResult(protocol_type, device, registry, order) ==
    IF protocol_type # ""
    THEN IF LookupKey(protocol_type) \in DOMAIN registry
         THEN Outcome(registry[LookupKey(protocol_type)], "none", {})
         ELSE Outcome("none", "unknown_protocol", DOMAIN registry)
    ELSE IF ~device.present
    THEN Outcome("none", "missing_argument", {})
    ELSE DetectDriver(device, order)

\* DeviceFactory.is_protocol_supported
IsProtocolSupported(protocol_name, registry) ==
    Lower(protocol_name) \in DOMAIN registry

\* _initialize_driver, the try block: what create_driver returns or raises
TryCreate(protocol, device, registry, order) ==
    IF protocol # ""
    THEN CreateDriverResult(protocol, NoDevice, registry, order)
    ELSE CreateDriverResult("", device, registry, order)

\* an _initialize_driver without the except branch
BoundDriver_NoFallback(made) == made.driver

\* _initialize_driver: self.device_driver after the try/except
BoundDriver(made) ==
    IF made.error = "none" THEN made.driver ELSE "ElkBledomDriver"

\* an _initialize_driver that stores the driver's UUID on every discovery
BackfilledUuid_Always(made, configured) ==
    IF made.error = "none" THEN WriteUuidOf(made.driver) ELSE configured

\* _initialize_driver: the write UUID is backfilled inside the try block
BackfilledUuid(made, configured) ==
    IF made.error = "none" /\ configured = ""
    THEN WriteUuidOf(made.driver)
    ELSE configured

\* register_driver: _DRIVER_REGISTRY[protocol_name.lower()] = driver_class
RegistryAfter(registry, protocol_name, driver_class) ==
    [k \in DOMAIN registry \cup {Lower(protocol_name)} |->
        IF k = Lower(protocol_name) THEN driver_class ELSE registry[k]]

\* register_driver: append the class unless it is in the list
OrderAfter(order, driver_class) ==
    IF \E k \in 1..Len(order) : order[k] = driver_class
    THEN order
    ELSE Append(order, driver_class)

\* the factory as imported, before any call
FactoryIdle ==
    /\ DRIVER_REGISTRY = InitialRegistry
    /\ DETECTION_ORDER = InitialDetectionOrder
    /\ call_op = "none"
    /\ call_protocol = ""
    /\ call_device = NoDevice
    /\ ret_driver = "none"
    /\ ret_error = "none"
    /\ ret_available = {}
    /\ last_reg_name = ""
    /\ last_reg_class = "none"
    /\ write_char_uuid = ""
    /\ config_protocol = ""
    /\ target_mac = ""

----------------------------------------------------------------------------
(* Effect speed: BleDeviceController.set_speed and the mode-command tasks it
   schedules on the worker's event loop *)

VARIABLES
    speed,                 \* self.speed
    set_speed_arg,         \* the argument of the latest set_speed call (of
                           \* the constructor's initial_speed before any)
    driver_bound,          \* self.device_driver is set
    driver_current_speed,  \* self.device_driver.current_speed
    client_connected,      \* self.client and self.client.is_connected
    mode_tasks,            \* _send_mode_command tasks scheduled, not yet run
    bound_class,          \* class of self.device_driver
    wire_call,             \* the driver method that built the latest packet
    wire_packet            \* the packet handed to write_gatt_char last

svars == <<speed, set_speed_arg, driver_bound, driver_current_speed,
           client_connected, mode_tasks, bound_class, wire_call,
           wire_packet>>

\* the number of scheduled tasks the model keeps track of
MaxTasks == 2

SpeedInputs == {-5, 0, 1, 16, 128, 255, 300}

\* the drivers' initial current_speed
ELK_DEFAULT_SPEED == 16
VENDOR_DEFAULT_SPEED == 32

\* a value that is stored as given
ClampByte_None(x) == x

\* max(0, min(255, int(x)))
ClampByte(x) == Max(0, Min(255, x))

\* a resend that is scheduled on every call made while connected
Resend_Always(changed, connected) == connected

\* set_speed: the resend sits inside "if s != self.speed" and needs
\* self.client.is_connected
Resend(changed, connected) == changed /\ connected

\* a set_mode that stores whatever speed it is given
RememberedSpeed_Always(current, given) == ClampByte(given)

\* driver.set_mode(mode_id, speed): "if speed > 0: self.current_speed = ..."
RememberedSpeed(current, given) ==
    IF given > 0 THEN ClampByte(given) ELSE current

SpeedIdle ==
    /\ speed = ELK_DEFAULT_SPEED
    /\ set_speed_arg = ELK_DEFAULT_SPEED
    /\ driver_bound = FALSE
    /\ driver_current_speed = ELK_DEFAULT_SPEED
    /\ client_connected = FALSE
    /\ mode_tasks = 0
    /\ bound_class = "none"
    /\ wire_call = "none"
    /\ wire_packet = <<>>

----------------------------------------------------------------------------
(* Wire packets: the drivers' packet builders, set_color and the
   ELK-BLEDOM set_mode *)

VARIABLES
    pk_driver,         \* class of the driver instance
    pk_connected,      \* self.client is set and self.client.is_connected
    pk_current_speed,  \* self.current_speed
    pk_actual_uuid,    \* self.actual_uuid: "none" or "alternative"
    pk_call,           \* the method called last
    pk_args,           \* its arguments
    pk_packet,         \* the payload it built, <<>> if none
    pk_writes,         \* the UUIDs it handed the payload to, in order
    pk_result          \* what it returned: "true", "false", "packet", "none"

pvars == <<pk_driver, pk_connected, pk_current_speed, pk_actual_uuid,
           pk_call, pk_args, pk_packet, pk_writes, pk_result>>

\* protocol constants of the drivers
ELK_PACKET_HEADER == <<126, 7, 5>>
ELK_PACKET_FOOTER == 239
ELK_CMD_COLOR == 3
ELK_CMD_MODE == 4
TRIONES_PACKET_START == <<86, 170>>
TRIONES_PACKET_END == <<170, 170>>
TRIONES_CMD_COLOR == 1
TRIONES_CMD_MODE == 4
TRIONES_CMD_BRIGHTNESS == 5
MAGICHOME_PACKET_START == 126
MAGICHOME_PACKET_END == 239
MAGICHOME_CMD_COLOR == 5
MAGICHOME_CMD_MODE == 4
MAGICHOME_CMD_BRIGHTNESS == 3
TUYA_CMD_COLOR == 1
TUYA_CMD_MODE == 2
TUYA_CMD_BRIGHTNESS == 3

\* x & 0xFF on a Python int of either sign
Byte(x) == x % 256

RECURSIVE Bytes(_)
Bytes(data) ==
    IF data = <<>> THEN <<>> ELSE <<Byte(Head(data))>> \o Bytes(Tail(data))

\* an ELK-BLEDOM frame with the speed byte ahead of the parameters
ElkBuildPacket_SpeedFirst(cmd, p1, p2, p3, spd) ==
    ELK_PACKET_HEADER \o
    <<Byte(cmd), Byte(spd), Byte(p1), Byte(p2), Byte(p3), ELK_PACKET_FOOTER>>

\* ElkBledomDriver._build_packet(cmd, p1, p2, p3, speed)
ElkBuildPacket(cmd, p1, p2, p3, spd) ==
    ELK_PACKET_HEADER \o
    <<Byte(cmd), Byte(p1), Byte(p2), Byte(p3), Byte(spd), ELK_PACKET_FOOTER>>

\* a Triones frame without its two end bytes
TrionesBuildPacket_NoEnd(cmd, p1, p2, p3) ==
    TRIONES_PACKET_START \o <<Byte(cmd), Byte(p1), Byte(p2), Byte(p3)>>

\* TrionesDriver._build_packet(cmd, p1, p2, p3)
TrionesBuildPacket(cmd, p1, p2, p3) ==
    TRIONES_PACKET_START \o <<Byte(cmd), Byte(p1), Byte(p2), Byte(p3)>>
        \o TRIONES_PACKET_END

\* a MagicHome frame whose LEN counts the data bytes only
MagicHomeBuildPacket_LenOfData(cmd, data) ==
    <<MAGICHOME_PACKET_START, Byte(Len(Bytes(data))), Byte(cmd)>>
        \o Bytes(data) \o <<MAGICHOME_PACKET_END>>

\* MagicHomeDriver._build_packet(cmd, data)
MagicHomeBuildPacket(cmd, data) ==
    <<MAGICHOME_PACKET_START, Byte(Len(Bytes(data)) + 1), Byte(cmd)>>
        \o Bytes(data) \o <<MAGICHOME_PACKET_END>>

\* TuyaDriver._build_simple_packet(cmd, data)
TuyaBuildSimplePacket(cmd, data) ==
    <<Byte(cmd), Byte(Len(Bytes(data)))>> \o Bytes(data)

\* set_color of each driver: the payload built from the clamped values
ColorPayload(cls, r, g, b, current) ==
    CASE cls = "ElkBledomDriver" ->
           ElkBuildPacket(ELK_CMD_COLOR, ClampByte(r), ClampByte(g),
                          ClampByte(b), current)
      [] cls = "TrionesDriver" ->
           TrionesBuildPacket(TRIONES_CMD_COLOR, ClampByte(r), ClampByte(g),
                              ClampByte(b))
      [] cls = "MagicHomeDriver" ->
           MagicHomeBuildPacket(MAGICHOME_CMD_COLOR,
                                <<ClampByte(r), ClampByte(g), ClampByte(b), 0>>)
      [] cls = "TuyaDriver" ->
           TuyaBuildSimplePacket(TUYA_CMD_COLOR,
                                 <<ClampByte(r), ClampByte(g), ClampByte(b)>>)

\* set_mode of each driver: the payload built with the remembered speed
ModePayload(cls, mode_id, current) ==
    CASE cls = "ElkBledomDriver" ->
           ElkBuildPacket(ELK_CMD_MODE, Byte(mode_id), 0, 0, current)
      [] cls = "TrionesDriver" ->
           TrionesBuildPacket(TRIONES_CMD_MODE, Byte(mode_id), Byte(current), 0)
      [] cls = "MagicHomeDriver" ->
           MagicHomeBuildPacket(MAGICHOME_CMD_MODE,
                                <<Byte(mode_id), Byte(current), 0, 0>>)
      [] cls = "TuyaDriver" ->
           TuyaBuildSimplePacket(TUYA_CMD_MODE, <<Byte(mode_id), Byte(current)>>)

\* set_brightness: int((max(0, min(100, int(brightness))) / 100.0) * 255)
BrightnessByte(brightness) == (Max(0, Min(100, brightness)) * 255) \div 100

\* set_brightness of the Triones, MagicHome and Tuya drivers: the payload
BrightnessPayload(cls, brightness) ==
    CASE cls = "TrionesDriver" ->
           TrionesBuildPacket(TRIONES_CMD_BRIGHTNESS,
                              BrightnessByte(brightness), 0, 0)
      [] cls = "MagicHomeDriver" ->
           MagicHomeBuildPacket(MAGICHOME_CMD_BRIGHTNESS,
                                <<BrightnessByte(brightness), 0, 0, 0>>)
      [] cls = "TuyaDriver" ->
           TuyaBuildSimplePacket(TUYA_CMD_BRIGHTNESS,
                                 <<BrightnessByte(brightness)>>)

\* the Triones, MagicHome and Tuya drivers write again on ALTERNATIVE_UUID
\* when the first write raised
Retries(cls) == cls # "ElkBledomDriver"

WireDrivers ==
    {"ElkBledomDriver", "TrionesDriver", "MagicHomeDriver", "TuyaDriver"}

DefaultSpeed(cls) ==
    IF cls = "ElkBledomDriver" THEN ELK_DEFAULT_SPEED ELSE VENDOR_DEFAULT_SPEED

ColorInputs == {-1, 128, 256}
ByteInputs == {0, 127, 255}
ModeInputs == {1, 4, 255}
ModeSpeedInputs == {0, 100, 300}

\* the mode id the speed unit's mode commands carry and the color its color
\* commands carry
SentMode == 4
SentColor == <<0, 200, 255>>
WriteOutcomes == {"ok", "raise"}

PacketIdle ==
    /\ pk_driver = "ElkBledomDriver"
    /\ pk_connected = FALSE
    /\ pk_current_speed = ELK_DEFAULT_SPEED
    /\ pk_actual_uuid = "none"
    /\ pk_call = "none"
    /\ pk_args = <<>>
    /\ pk_packet = <<>>
    /\ pk_writes = <<>>
    /\ pk_result = "none"

----------------------------------------------------------------------------
(* Exceptions of the connection cycle and subscriber callbacks *)

GATT_TIMEOUT_MESSAGE == "GATT CONN TIMEOUT"
ErrorLimit == 100

\* no exception: the empty text with no nested exception
NoException == [text |-> "", nested |-> ""]

\* exceptions raised by BleakClient(device) and device_driver.connect: the
\* text str(e) and the text of __cause__ / __context__ ("" when there is none)
ExceptionInputs ==
    { [text |-> "GATT connection Timeout", nested |-> ""],
      [text |-> "Device disconnected", nested |-> "Operation timeout"],
      [text |-> "Failed to connect to device AA:BB:CC:DD:EE:FF: could not get GATT services, the peripheral did not answer the connection request", nested |-> ""] }

\* an exception raised by a subscriber's callback, and one raised by
\* psutil.cpu_percent
CallbackError == [text |-> "subscriber failed", nested |-> ""]
SampleError == [text |-> "cpu_percent failed", nested |-> ""]

Exceptions == ExceptionInputs \cup {CallbackError, SampleError}

\* _is_gatt_timeout_exception: the test of the BleakError branch is repeated
\* by the fallback on str(exc), so the type of exc does not matter
IsGattTimeout(exc) ==
    LET msg == Lower(exc.text)
        nmsg == Lower(exc.nested)
    IN  \/ /\ exc.nested # ""
           /\ \/ Contains(nmsg, "timeout")
              \/ Contains(nmsg, "error 8")
              \/ Contains(nmsg, "conn timeout")
        \/ (Contains(msg, "gatt") /\ Contains(msg, "timeout"))
        \/ Contains(msg, "error 8")
        \/ Contains(msg, "conn timeout")

\* an error message that keeps the whole exception text
ErrorText_Whole(msg) == msg

\* msg[:100]
ErrorText(msg) == SubSeq(msg, 1, Min(ErrorLimit, Len(msg)))

\* is_timeout of each exception
TimeoutKind == [exc \in Exceptions |-> IsGattTimeout(exc)]

\* self.status.error_message set by the except block of _main_loop
ErrorMessage ==
    [exc \in Exceptions |->
        IF TimeoutKind[exc] THEN GATT_TIMEOUT_MESSAGE ELSE ErrorText(exc.text)]

\* what a callback does: "none" when no callback is invoked
CallbackInputs == {"none", "return", "raise"}

\* an _emit_status_change that lets the subscriber's exception through
EmitStatusChange_Unguarded(cb) == cb

\* _emit_status_change: try: self.on_status_change(self.status)
\* except Exception: logged; what reaches the caller
EmitStatusChange(cb) == IF cb = "raise" THEN "return" ELSE cb

\* _send_color: try: self.on_color_received(final_color) except Exception:
\* logged; what reaches the caller
OnColorReceived(cb) == IF cb = "raise" THEN "return" ELSE cb

\* the periodic RSSI read of an iteration: not due yet, an int, or None
\* (no client, no RSSI available, or an exception caught in _read_rssi)
RssiOutcomes == {"not_due", "value", "failed"}

\* a _execute_cpu_mode without its try/except
SampleEscapes_Unguarded(sample) == sample = "raise"

\* _execute_cpu_mode: psutil.cpu_percent sits inside try/except Exception
SampleEscapes(sample) == FALSE

----------------------------------------------------------------------------
(* The status object: self.status and what the subscribers are handed *)

VARIABLES
    status,       \* the fields of the DeviceStatus object self.status
    delivered,    \* what on_status_change was handed last: "none" or a
                  \* reference to an object
    handed_over,  \* history: the fields the object had when it was handed over
    selected_mode,        \* self.current_mode
    client_is_connected,  \* self.client and self.client.is_connected
    mode_queue    \* the modes of the _send_mode_command tasks scheduled on
                  \* the worker's loop and not yet run, oldest first

tvars == <<status, delivered, handed_over, selected_mode,
           client_is_connected, mode_queue>>

\* DeviceStatus(): the defaults of the dataclass
DefaultStatus ==
    [is_connected |-> FALSE, signal_strength |-> 0, current_mode |-> "MANUAL",
     error_message |-> "none", cpu_usage |-> "none"]

\* the object a reference handed to a subscriber points to: there is one
\* DeviceStatus object, created in __init__ and updated in place
Deref(ref) == status

StatusIdle ==
    /\ status = DefaultStatus
    /\ delivered = "none"
    /\ handed_over = DefaultStatus
    /\ selected_mode = "MANUAL"
    /\ client_is_connected = FALSE
    /\ mode_queue = <<>>

----------------------------------------------------------------------------
(* Effect Engine: the colors of the MANUAL and CPU modes
   (BleDeviceController._execute_mode, _execute_cpu_mode, _send_color) and
   the UI thread's set_color and set_brightness.  A color is <<r, g, b>>; a
   brightness is counted in quarters, 4 standing for 1.0, so that the
   products of apply_brightness are exact. *)

VARIABLES
    current_color,    \* self.current_color
    self_brightness,  \* self.brightness, in quarters
    engine,           \* the mode whose _execute_mode call is running, or "none"
    epc,              \* position of the worker inside that call
    arg_color,        \* the parameter color of _send_color
    final_color,      \* the local final_color of _send_color
    cpu_sample,       \* the local cpu of _execute_cpu_mode in percent, -1: none
    written,          \* the colors handed to driver.set_color by this call
    touched           \* history: set_color or set_brightness ran during this call

evars == <<current_color, self_brightness, engine, epc, arg_color,
           final_color, cpu_sample, written, touched>>

\* Color(r, g, b): __post_init__ clamps each channel to 0..255
MakeColor(r, g, b) == <<ClampByte(r), ClampByte(g), ClampByte(b)>>

\* max(0.0, min(1.0, brightness)), in quarters
ClampUnit(q) == Max(0, Min(4, q))

\* a color that is sent as it was set
ApplyBrightness_Unscaled(c, q) == c

\* Color.apply_brightness: int(channel * brightness) per channel
ApplyBrightness(c, q) ==
    MakeColor((c[1] * ClampUnit(q)) \div 4,
              (c[2] * ClampUnit(q)) \div 4,
              (c[3] * ClampUnit(q)) \div 4)

\* the ramp with the bands <40, 40..70 and >70
CpuColor_Inclusive(cpu) ==
    IF cpu < 40 THEN MakeColor(0, 200, 255)
    ELSE IF cpu <= 70 THEN MakeColor(138, 43, 226)
    ELSE MakeColor(255, 0, 0)

\* _execute_cpu_mode: if cpu < 40 ... elif cpu < 70 ... else ...
CpuColor(cpu) ==
    IF cpu < 40 THEN MakeColor(0, 200, 255)
    ELSE IF cpu < 70 THEN MakeColor(138, 43, 226)
    ELSE MakeColor(255, 0, 0)

\* __init__: Color(), brightness 1.0, no _execute_mode call running
EffectIdle ==
    /\ current_color = MakeColor(0, 0, 0)
    /\ self_brightness = 4
    /\ engine = "none"
    /\ epc = "idle"
    /\ arg_color = <<>>
    /\ final_color = <<>>
    /\ cpu_sample = -1
    /\ written = <<>>
    /\ touched = FALSE

----------------------------------------------------------------------------
(* Worker threads: BleDeviceController.start, stop and _run_event_loop.
   Every start() that finds is_running False creates a thread; all threads
   share the one event loop self.loop made in __init__. *)

VARIABLES
    running_flag,   \* self.is_running as start() and stop() leave it
    self_thread,    \* self.thread: the number of the thread created last, 0: None
    threads,        \* state of each thread: "unborn", "started" (not yet in
                    \* run_until_complete), "looping" (runs _main_loop),
                    \* "exited" or "crashed" (left _run_event_loop by an exception)
    self_loop,      \* self.loop: "new", "running" or "closed"
    ui_call,        \* the call the UI thread is in: "none" or "join"
    last_call       \* history: how the latest start() or stop() call went

hvars == <<running_flag, self_thread, threads, self_loop, ui_call, last_call>>

\* the number of threads the model lets start() create
MaxThreads == 3

\* a run_until_complete that runs _main_loop whenever the loop is not closed
EnterLoop_Unchecked(loop) == IF loop = "closed" THEN "exited" ELSE "looping"

\* _run_event_loop up to the coroutine's first step: run_until_complete
\* raises RuntimeError on a closed and on a running loop; the except clause
\* logs it, and loop.close() in the finally clause raises again when the
\* loop is running
EnterLoop(loop) ==
    CASE loop = "closed" -> "exited"
      [] loop = "running" -> "crashed"
      [] OTHER -> "looping"

\* the threads that execute _main_loop
Looping(th) == {t \in DOMAIN th : th[t] = "looping"}

\* __init__: is_running False, no thread, a new event loop
ThreadsIdle ==
    /\ running_flag = FALSE
    /\ self_thread = 0
    /\ threads = [t \in 1..MaxThreads |-> "unborn"]
    /\ self_loop = "new"
    /\ ui_call = "none"
    /\ last_call = "none"

----------------------------------------------------------------------------
(* The communication loop of the BleDeviceController of src/ble_controller.py:
   the while loop inside the async with block of its _main_loop *)

VARIABLES
    legacy_pc,         \* position of the worker: "idle", "head", "exec", "sleep", "left"
    legacy_link,       \* client.is_connected
    legacy_running,    \* self.is_running
    legacy_force,      \* self.force_disconnect
    legacy_iteration,  \* history: what the iteration in progress did so far
    legacy_last,       \* history: what the iteration completed last did
    legacy_completed   \* history: the number of iterations completed

lvars == <<legacy_pc, legacy_link, legacy_running, legacy_force,
           legacy_iteration, legacy_last, legacy_completed>>

\* the number of iterations the model counts
MaxIterations == 3

\* an iteration that did nothing yet: the outcome of its signal-strength
\* read, the number of _execute_mode calls, whether it slept
NoIteration == [rssi |-> "none", executed |-> 0, slept |-> FALSE]

\* whether the while loop goes on at its head
LegacyGoesOn(up, running, force) == up /\ running /\ ~force

\* __init__ of the controller; no connection yet
LegacyIdle ==
    /\ legacy_pc = "idle"
    /\ legacy_link = FALSE
    /\ legacy_running = FALSE
    /\ legacy_force = FALSE
    /\ legacy_iteration = NoIteration
    /\ legacy_last = NoIteration
    /\ legacy_completed = 0

----------------------------------------------------------------------------
(* The state outside the supervisor *)

\* the state outside the supervisor, and its value while only the
\* supervisor runs
uvars == <<fvars, svars, pvars, tvars, evars, hvars, lvars>>

UnitsIdle ==
    FactoryIdle /\ SpeedIdle /\ PacketIdle /\ StatusIdle /\ EffectIdle /\ ThreadsIdle
    /\ LegacyIdle

\* the supervisor before start(), with the default preferences
SupervisorIdle ==
    /\ pc = "idle"
    /\ is_running = FALSE
    /\ auto_reconnect = TRUE
    /\ reconnect_interval = FixedDelay
    /\ current_backoff = reconnect_interval
    /\ reconnect_count = 0
    /\ current_mode = "MANUAL"
    /\ force_disconnect = FALSE
    /\ status_is_connected = FALSE
    /\ status_error_message = "none"
    /\ client = "none"
    /\ link_up = FALSE
    /\ device_driver = "none"
    /\ sleep_for = 0
    /\ i = 0
    /\ idx = 0
    /\ exit_reason = "none"
    /\ paused = FALSE
    /\ stale_frames = 0
    /\ fail_streak = 0
    /\ raised = NoException
    /\ callback = "none"
    /\ telemetry = "none"

----------------------------------------------------------------------------
(* Driver factory: actions *)

\* what a factory call leaves alone
FactoryFrame == UNCHANGED <<vars, svars, pvars, tvars, evars, hvars, lvars>>

\* DeviceFactory.create_driver(protocol_type, device)
CreateDriver(protocol_type, device) ==
    LET out == CreateDriverResult(protocol_type, device,
                                  DRIVER_REGISTRY, DETECTION_ORDER)
    IN  /\ call_op' = "create_driver"
        /\ call_protocol' = protocol_type
        /\ call_device' = device
        /\ ret_driver' = out.driver
        /\ ret_error' = out.error
        /\ ret_available' = out.available
        /\ UNCHANGED <<DRIVER_REGISTRY, DETECTION_ORDER, last_reg_name,
                       last_reg_class, write_char_uuid, config_protocol,
                       target_mac>>
        /\ FactoryFrame

\* DeviceFactory.register_driver(protocol_name, driver_class)
RegisterDriver(protocol_name, driver_class) ==
    /\ DRIVER_REGISTRY' = RegistryAfter(DRIVER_REGISTRY, protocol_name, driver_class)
    /\ DETECTION_ORDER' = OrderAfter(DETECTION_ORDER, driver_class)
    /\ call_op' = "register_driver"
    /\ call_protocol' = protocol_name
    /\ call_device' = NoDevice
    /\ ret_driver' = "none"
    /\ ret_error' = "none"
    /\ ret_available' = {}
    /\ last_reg_name' = protocol_name
    /\ last_reg_class' = driver_class
    /\ UNCHANGED <<write_char_uuid, config_protocol, target_mac>>
    /\ FactoryFrame

\* BleDeviceController._initialize_driver(device), called by _find_device
\* on every successful discovery
InitializeDriver(protocol, device) ==
    LET made == TryCreate(protocol, device, DRIVER_REGISTRY, DETECTION_ORDER)
    IN  /\ protocol = config_protocol
        /\ call_op' = "initialize_driver"
        /\ call_protocol' = protocol
        /\ call_device' = device
        /\ ret_driver' = BoundDriver(made)
        /\ ret_error' = "none"
        /\ ret_available' = {}
        /\ write_char_uuid' = BackfilledUuid(made, write_char_uuid)
        /\ UNCHANGED <<config_protocol, target_mac>>
        /\ UNCHANGED <<DRIVER_REGISTRY, DETECTION_ORDER, last_reg_name,
                       last_reg_class>>
        /\ FactoryFrame

FactoryInit ==
    /\ SupervisorIdle
    /\ LegacyIdle
    /\ ThreadsIdle
    /\ EffectIdle
    /\ StatusIdle
    /\ SpeedIdle
    /\ PacketIdle
    /\ DRIVER_REGISTRY = InitialRegistry
    /\ DETECTION_ORDER = InitialDetectionOrder
    /\ call_op = "none"
    /\ call_protocol = ""
    /\ call_device = NoDevice
    /\ ret_driver = "none"
    /\ ret_error = "none"
    /\ ret_available = {}
    /\ last_reg_name = ""
    /\ last_reg_class = "none"
    /\ write_char_uuid \in {"", ELK_WRITE_CHAR_UUID}
    /\ config_protocol \in {"", "tuya", " Mock ", "unknown_protocol"}
    /\ target_mac = "00:11:22:33:44:55"

FactoryNext ==
    \/ \E a \in CreateArgs : CreateDriver(a[1], a[2])
    \/ \E n \in {"mock", " Mock "}, c \in {"MockDriver", "TrionesDriver"} :
         RegisterDriver(n, c)
    \/ \E a \in InitializeArgs : InitializeDriver(a[1], a[2])

SpecFactory == FactoryInit /\ [][FactoryNext]_<<vars, fvars, svars, pvars, tvars, evars, hvars, lvars>>

----------------------------------------------------------------------------
(* Effect speed: actions *)

\* what a step of the speed model leaves alone
SpeedFrame == UNCHANGED <<vars, fvars, pvars, tvars, evars, hvars, lvars>>

\* set_speed(v) on the UI thread
SetSpeed(v) ==
    /\ mode_tasks < MaxTasks
    /\ set_speed_arg' = v
    /\ IF ClampByte(v) # speed
       THEN /\ speed' = ClampByte(v)
            /\ driver_current_speed' =
                 IF driver_bound THEN ClampByte(ClampByte(v))
                 ELSE driver_current_speed
       ELSE UNCHANGED <<speed, driver_current_speed>>
    /\ mode_tasks' =
         IF Resend(ClampByte(v) # speed, client_connected)
         THEN mode_tasks + 1
         ELSE mode_tasks
    /\ UNCHANGED <<driver_bound, client_connected, bound_class, wire_call,
                   wire_packet>>
    /\ SpeedFrame

\* _initialize_driver binds a fresh driver; its current_speed is the class
\* default
BindDriver(cls) ==
    /\ ~client_connected
    /\ driver_bound' = TRUE
    /\ bound_class' = cls
    /\ driver_current_speed' = DefaultSpeed(cls)
    /\ UNCHANGED <<speed, set_speed_arg, client_connected, mode_tasks,
                   wire_call, wire_packet>>
    /\ SpeedFrame

\* the worker connects the client
ClientConnects ==
    /\ driver_bound
    /\ ~client_connected
    /\ client_connected' = TRUE
    /\ UNCHANGED <<speed, set_speed_arg, driver_bound, driver_current_speed,
                   mode_tasks, bound_class, wire_call, wire_packet>>
    /\ SpeedFrame

\* the link drops or the worker disconnects
ClientDisconnects ==
    /\ client_connected
    /\ client_connected' = FALSE
    /\ UNCHANGED <<speed, set_speed_arg, driver_bound, driver_current_speed,
                   mode_tasks, bound_class, wire_call, wire_packet>>
    /\ SpeedFrame

\* a scheduled _send_mode_command runs: the mode is not in the driver's
\* mapping, or set_mode(mode_id, self.speed) is called; the driver
\* remembers the speed once it has found its client connected
RunModeTask(supported) ==
    /\ mode_tasks > 0
    /\ mode_tasks' = mode_tasks - 1
    /\ IF driver_bound /\ supported /\ client_connected
       THEN /\ driver_current_speed' =
                 RememberedSpeed(driver_current_speed, speed)
            /\ wire_call' = "set_mode"
            /\ wire_packet' =
                 ModePayload(bound_class, SentMode,
                             RememberedSpeed(driver_current_speed, speed))
       ELSE UNCHANGED <<driver_current_speed, wire_call, wire_packet>>
    /\ UNCHANGED <<speed, set_speed_arg, driver_bound, client_connected,
                   bound_class>>
    /\ SpeedFrame

\* _send_color on the worker: driver.set_color builds the color packet with
\* the driver's current_speed and hands it to write_gatt_char
DriverSendsColor(r, g, b) ==
    /\ driver_bound
    /\ client_connected
    /\ wire_call' = "set_color"
    /\ wire_packet' = ColorPayload(bound_class, r, g, b, driver_current_speed)
    /\ UNCHANGED <<speed, set_speed_arg, driver_bound, driver_current_speed,
                   client_connected, mode_tasks, bound_class>>
    /\ SpeedFrame

SpeedInit ==
    /\ SupervisorIdle
    /\ LegacyIdle
    /\ ThreadsIdle
    /\ EffectIdle
    /\ StatusIdle
    /\ FactoryIdle
    /\ PacketIdle
    /\ set_speed_arg \in SpeedInputs
    /\ speed = ClampByte(set_speed_arg)
    /\ driver_bound = FALSE
    /\ driver_current_speed = ELK_DEFAULT_SPEED
    /\ client_connected = FALSE
    /\ mode_tasks = 0
    /\ bound_class = "none"
    /\ wire_call = "none"
    /\ wire_packet = <<>>

SpeedNext ==
    \/ \E v \in SpeedInputs : SetSpeed(v)
    \/ \E cls \in {"ElkBledomDriver", "MagicHomeDriver"} : BindDriver(cls)
    \/ ClientConnects
    \/ ClientDisconnects
    \/ \E supported \in BOOLEAN : RunModeTask(supported)
    \/ DriverSendsColor(SentColor[1], SentColor[2], SentColor[3])

SpecSpeed == SpeedInit /\ [][SpeedNext]_<<vars, fvars, svars, pvars, tvars, evars, hvars, lvars>>

----------------------------------------------------------------------------
(* Wire packets: actions *)

\* what a step of the packet model leaves alone
PacketFrame == UNCHANGED <<vars, fvars, svars, tvars, evars, hvars, lvars>>

\* a driver instance is constructed
NewDriver(cls) ==
    /\ pk_driver' = cls
    /\ pk_connected' = FALSE
    /\ pk_current_speed' = DefaultSpeed(cls)
    /\ pk_actual_uuid' = "none"
    /\ pk_call' = "none"
    /\ pk_args' = <<>>
    /\ pk_packet' = <<>>
    /\ pk_writes' = <<>>
    /\ pk_result' = "none"
    /\ PacketFrame

\* driver.connect(client) with a connected client: the Triones, MagicHome
\* and Tuya drivers set actual_uuid to a characteristic found among the
\* client's services, or to WRITE_CHAR_UUID
DriverConnect(found) ==
    /\ ~pk_connected
    /\ pk_connected' = TRUE
    /\ pk_actual_uuid' = IF Retries(pk_driver) THEN found ELSE pk_actual_uuid
    /\ UNCHANGED <<pk_driver, pk_current_speed, pk_call, pk_args, pk_packet,
                   pk_writes, pk_result>>
    /\ PacketFrame

\* driver.disconnect(), or the client's link goes down
DriverDisconnect ==
    /\ pk_connected
    /\ pk_connected' = FALSE
    /\ pk_actual_uuid' = "none"
    /\ UNCHANGED <<pk_driver, pk_current_speed, pk_call, pk_args, pk_packet,
                   pk_writes, pk_result>>
    /\ PacketFrame

\* uuid = self.actual_uuid or self.WRITE_CHAR_UUID
UsedUuid == IF pk_actual_uuid = "none" THEN "primary" ELSE pk_actual_uuid

\* a set_color that lets the exception of a failed write escape
WriteCommand_Propagates(first, second) ==
    /\ pk_writes' = << <<UsedUuid, first>> >>
    /\ pk_actual_uuid' = pk_actual_uuid
    /\ pk_result' = IF first = "ok" THEN "true" ELSE "raise"

\* the writes of set_color and its result: one write_gatt_char, and for the
\* retrying drivers a second one on ALTERNATIVE_UUID when the first raised
\* and actual_uuid is not already the alternative
WriteCommand(first, second) ==
    LET retry == /\ first = "raise"
                 /\ Retries(pk_driver)
                 /\ pk_actual_uuid # "alternative"
    IN  /\ pk_writes' =
             IF retry
             THEN << <<UsedUuid, first>>, <<"alternative", second>> >>
             ELSE << <<UsedUuid, first>> >>
        /\ pk_actual_uuid' = IF retry THEN "alternative" ELSE pk_actual_uuid
        /\ pk_result' =
             IF first = "ok" \/ (retry /\ second = "ok") THEN "true"
             ELSE "false"

\* the single write of set_mode and set_brightness and its result
WriteOnce(first) ==
    /\ pk_writes' = << <<UsedUuid, first>> >>
    /\ pk_result' = IF first = "ok" THEN "true" ELSE "false"

\* driver.set_color(r, g, b)
DriverSetColor(r, g, b, first, second) ==
    /\ pk_call' = "set_color"
    /\ pk_args' = <<r, g, b>>
    /\ IF ~pk_connected
       THEN /\ pk_packet' = <<>>
            /\ pk_writes' = <<>>
            /\ pk_result' = "false"
            /\ UNCHANGED pk_actual_uuid
       ELSE /\ pk_packet' = ColorPayload(pk_driver, r, g, b, pk_current_speed)
            /\ WriteCommand(first, second)
    /\ UNCHANGED <<pk_driver, pk_connected, pk_current_speed>>
    /\ PacketFrame

\* ElkBledomDriver._build_packet(cmd, p1, p2, p3, speed)
ElkBuild(cmd, p1, p2, p3, spd) ==
    /\ pk_driver = "ElkBledomDriver"
    /\ pk_call' = "build_packet"
    /\ pk_args' = <<cmd, p1, p2, p3, spd>>
    /\ pk_packet' = ElkBuildPacket(cmd, p1, p2, p3, spd)
    /\ pk_writes' = <<>>
    /\ pk_result' = "packet"
    /\ UNCHANGED <<pk_driver, pk_connected, pk_current_speed, pk_actual_uuid>>
    /\ PacketFrame

\* ElkBledomDriver.set_mode(mode_id, speed)
ElkSetMode(mode_id, spd, first) ==
    /\ pk_driver = "ElkBledomDriver"
    /\ pk_call' = "set_mode"
    /\ pk_args' = <<mode_id, spd>>
    /\ IF ~pk_connected
       THEN /\ pk_packet' = <<>>
            /\ pk_writes' = <<>>
            /\ pk_result' = "false"
            /\ UNCHANGED <<pk_actual_uuid, pk_current_speed>>
       ELSE /\ pk_current_speed' = RememberedSpeed(pk_current_speed, spd)
            /\ pk_packet' = ElkBuildPacket(ELK_CMD_MODE, Byte(mode_id), 0, 0,
                                           RememberedSpeed(pk_current_speed, spd))
            /\ WriteCommand(first, first)
    /\ UNCHANGED <<pk_driver, pk_connected>>
    /\ PacketFrame

\* set_mode(mode_id, speed) of the Triones, MagicHome and Tuya drivers
VendorSetMode(mode_id, spd, first) ==
    /\ Retries(pk_driver)
    /\ pk_call' = "set_mode"
    /\ pk_args' = <<mode_id, spd>>
    /\ IF ~pk_connected
       THEN /\ pk_packet' = <<>>
            /\ pk_writes' = <<>>
            /\ pk_result' = "false"
            /\ UNCHANGED pk_current_speed
       ELSE /\ pk_current_speed' = RememberedSpeed(pk_current_speed, spd)
            /\ pk_packet' = ModePayload(pk_driver, mode_id,
                                        RememberedSpeed(pk_current_speed, spd))
            /\ WriteOnce(first)
    /\ UNCHANGED <<pk_driver, pk_connected, pk_actual_uuid>>
    /\ PacketFrame

\* set_brightness(brightness): ELK-BLEDOM returns True and writes nothing
DriverSetBrightness(brightness, first) ==
    /\ pk_call' = "set_brightness"
    /\ pk_args' = <<brightness>>
    /\ IF ~Retries(pk_driver)
       THEN /\ pk_packet' = <<>>
            /\ pk_writes' = <<>>
            /\ pk_result' = "true"
       ELSE IF ~pk_connected
       THEN /\ pk_packet' = <<>>
            /\ pk_writes' = <<>>
            /\ pk_result' = "false"
       ELSE /\ pk_packet' = BrightnessPayload(pk_driver, brightness)
            /\ WriteOnce(first)
    /\ UNCHANGED <<pk_driver, pk_connected, pk_current_speed, pk_actual_uuid>>
    /\ PacketFrame

PacketInit ==
    /\ SupervisorIdle
    /\ LegacyIdle
    /\ ThreadsIdle
    /\ EffectIdle
    /\ StatusIdle
    /\ FactoryIdle
    /\ SpeedIdle
    /\ pk_driver \in WireDrivers
    /\ pk_connected = FALSE
    /\ pk_current_speed = DefaultSpeed(pk_driver)
    /\ pk_actual_uuid = "none"
    /\ pk_call = "none"
    /\ pk_args = <<>>
    /\ pk_packet = <<>>
    /\ pk_writes = <<>>
    /\ pk_result = "none"

PacketNext ==
    \/ \E cls \in WireDrivers : NewDriver(cls)
    \/ \E found \in {"primary", "alternative"} : DriverConnect(found)
    \/ DriverDisconnect
    \/ \E r \in ColorInputs, g \in ColorInputs, b \in ColorInputs :
         \E first \in WriteOutcomes, second \in WriteOutcomes :
            DriverSetColor(r, g, b, first, second)
    \/ \E cmd \in ByteInputs, p1 \in ByteInputs, p2 \in ByteInputs,
          p3 \in ByteInputs, spd \in ByteInputs :
            ElkBuild(cmd, p1, p2, p3, spd)
    \/ \E mode_id \in ModeInputs, spd \in ModeSpeedInputs :
         \E first \in WriteOutcomes : ElkSetMode(mode_id, spd, first)
    \/ \E mode_id \in ModeInputs, spd \in ModeSpeedInputs :
         \E first \in WriteOutcomes : VendorSetMode(mode_id, spd, first)
    \/ \E brightness \in {-10, 50, 150}, first \in WriteOutcomes :
         DriverSetBrightness(brightness, first)

SpecPacket == PacketInit /\ [][PacketNext]_<<vars, fvars, svars, pvars, tvars, evars, hvars, lvars>>

----------------------------------------------------------------------------
(* The status object: actions *)

\* what an update of the status object leaves alone
StatusFrame == UNCHANGED <<vars, fvars, svars, pvars, evars, hvars, lvars>>

\* _emit_status_change: self.on_status_change(self.status) hands over the
\* object itself
Emit ==
    /\ delivered' = "self.status"
    /\ handed_over' = status'

\* _main_loop: self.status.is_connected = False; emit "scanning"; the
\* transport of the previous cycle is closed
StatusScanning ==
    /\ status' = [status EXCEPT !.is_connected = FALSE]
    /\ client_is_connected' = FALSE
    /\ Emit
    /\ UNCHANGED <<selected_mode, mode_queue>>
    /\ StatusFrame

\* _main_loop: self.client = client; self.status.is_connected = True; emit
\* "Connected"
StatusConnected ==
    /\ status' = [status EXCEPT !.is_connected = TRUE]
    /\ client_is_connected' = TRUE
    /\ Emit
    /\ UNCHANGED <<selected_mode, mode_queue>>
    /\ StatusFrame

\* _main_loop: self.status.signal_strength = rssi; emit "RSSI updated"
StatusRssi(rssi) ==
    /\ status.is_connected
    /\ status' = [status EXCEPT !.signal_strength = rssi]
    /\ Emit
    /\ UNCHANGED <<selected_mode, client_is_connected, mode_queue>>
    /\ StatusFrame

\* _main_loop, except block: is_connected = False; error_message = ...; emit
StatusError(msg) ==
    /\ status' = [status EXCEPT !.is_connected = FALSE, !.error_message = msg]
    /\ client_is_connected' = FALSE
    /\ Emit
    /\ UNCHANGED <<selected_mode, mode_queue>>
    /\ StatusFrame

\* the tasks scheduled once run_coroutine_threadsafe was called with the
\* mode, which set_mode and set_speed do only while the client is connected
Scheduled(queue, connected, m) == IF connected THEN Append(queue, m) ELSE queue

\* set_mode: self.current_mode = mode; self.status.current_mode = mode;
\* the mode command is scheduled; emit "Mode: ..."
StatusMode(m) ==
    /\ selected_mode # m
    /\ client_is_connected => Len(mode_queue) < MaxTasks
    /\ selected_mode' = m
    /\ status' = [status EXCEPT !.current_mode = m]
    /\ mode_queue' = Scheduled(mode_queue, client_is_connected, m)
    /\ Emit
    /\ UNCHANGED client_is_connected
    /\ StatusFrame

\* set_speed with a new speed: the current mode is sent again
StatusSpeed ==
    /\ client_is_connected
    /\ Len(mode_queue) < MaxTasks
    /\ mode_queue' = Scheduled(mode_queue, client_is_connected, selected_mode)
    /\ UNCHANGED <<status, delivered, handed_over, selected_mode,
                   client_is_connected>>
    /\ StatusFrame

\* the oldest scheduled _send_mode_command(mode) runs on the worker's loop:
\* self.status.current_mode = mode only when the driver reported success,
\* which takes a connected client
StatusModeTask(success) ==
    /\ mode_queue # <<>>
    /\ success => client_is_connected
    /\ mode_queue' = Tail(mode_queue)
    /\ status' = IF success
                 THEN [status EXCEPT !.current_mode = Head(mode_queue)]
                 ELSE status
    /\ UNCHANGED <<delivered, handed_over, selected_mode, client_is_connected>>
    /\ StatusFrame

\* _execute_cpu_mode: self.status.cpu_usage = cpu, nothing is emitted
StatusCpu(cpu) ==
    /\ status.is_connected
    /\ status' = [status EXCEPT !.cpu_usage = cpu]
    /\ UNCHANGED <<delivered, handed_over, selected_mode,
                   client_is_connected, mode_queue>>
    /\ StatusFrame

\* _send_color, except block: self.status.is_connected = False, nothing is
\* emitted
StatusSendFailed ==
    /\ status.is_connected
    /\ status' = [status EXCEPT !.is_connected = FALSE]
    /\ UNCHANGED <<delivered, handed_over, selected_mode,
                   client_is_connected, mode_queue>>
    /\ StatusFrame

StatusInit ==
    /\ SupervisorIdle
    /\ LegacyIdle
    /\ ThreadsIdle
    /\ EffectIdle
    /\ FactoryIdle
    /\ SpeedIdle
    /\ PacketIdle
    /\ StatusIdle

StatusNext ==
    \/ StatusScanning
    \/ StatusConnected
    \/ \E rssi \in {-60, -85} : StatusRssi(rssi)
    \/ StatusError(GATT_TIMEOUT_MESSAGE)
    \/ \E m \in {"MANUAL", "CPU"} : StatusMode(m)
    \/ StatusSpeed
    \/ \E success \in BOOLEAN : StatusModeTask(success)
    \/ \E cpu \in {"low", "high"} : StatusCpu(cpu)
    \/ StatusSendFailed

SpecStatus == StatusInit /\ [][StatusNext]_<<vars, fvars, svars, pvars, tvars, evars, hvars, lvars>>

----------------------------------------------------------------------------
(* Effect Engine: actions *)

\* what a step of the effect model leaves alone
EffectFrame == UNCHANGED <<vars, fvars, svars, pvars, tvars, hvars, lvars>>

\* set_color(color) on the UI thread
UiSetColor(c) ==
    /\ current_color' = c
    /\ touched' = (touched \/ engine # "none")
    /\ UNCHANGED <<self_brightness, engine, epc, arg_color, final_color,
                   cpu_sample, written>>
    /\ EffectFrame

\* set_brightness(brightness) on the UI thread
UiSetBrightness(q) ==
    /\ self_brightness' = ClampUnit(q)
    /\ touched' = (touched \/ engine # "none")
    /\ UNCHANGED <<current_color, engine, epc, arg_color, final_color,
                   cpu_sample, written>>
    /\ EffectFrame

\* _execute_mode, MANUAL: the argument self.current_color is evaluated and
\* _send_color is entered
ManualBegins ==
    /\ epc = "idle"
    /\ engine' = "MANUAL"
    /\ epc' = "scale"
    /\ arg_color' = current_color
    /\ final_color' = <<>>
    /\ cpu_sample' = -1
    /\ written' = <<>>
    /\ touched' = FALSE
    /\ UNCHANGED <<current_color, self_brightness>>
    /\ EffectFrame

\* _execute_mode, CPU: cpu = psutil.cpu_percent(...); the ramp picks the
\* color and _send_color is entered
CpuBegins(cpu) ==
    /\ epc = "idle"
    /\ engine' = "CPU"
    /\ epc' = "scale"
    /\ cpu_sample' = cpu
    /\ arg_color' = CpuColor(cpu)
    /\ final_color' = <<>>
    /\ written' = <<>>
    /\ touched' = FALSE
    /\ UNCHANGED <<current_color, self_brightness>>
    /\ EffectFrame

\* _send_color: final_color = color.apply_brightness(self.brightness)
ScaleColor ==
    /\ epc = "scale"
    /\ epc' = "write"
    /\ final_color' = ApplyBrightness(arg_color, self_brightness)
    /\ UNCHANGED <<current_color, self_brightness, engine, arg_color,
                   cpu_sample, written, touched>>
    /\ EffectFrame

\* _send_color: await self.device_driver.set_color(final_color.r, .g, .b);
\* whatever the driver answers, _execute_mode returns
WriteColor ==
    /\ epc = "write"
    /\ epc' = "idle"
    /\ written' = Append(written, final_color)
    /\ UNCHANGED <<current_color, self_brightness, engine, arg_color,
                   final_color, cpu_sample, touched>>
    /\ EffectFrame

EffectInit ==
    /\ SupervisorIdle
    /\ LegacyIdle
    /\ ThreadsIdle
    /\ FactoryIdle
    /\ SpeedIdle
    /\ PacketIdle
    /\ StatusIdle
    /\ EffectIdle

EffectNext ==
    \/ \E c \in {MakeColor(300, 100, -3), MakeColor(0, 0, 255)} : UiSetColor(c)
    \/ \E q \in {-2, 0, 1, 2, 4, 6} : UiSetBrightness(q)
    \/ ManualBegins
    \/ \E cpu \in 0..100 : CpuBegins(cpu)
    \/ ScaleColor
    \/ WriteColor

SpecEffect == EffectInit /\ [][EffectNext]_<<vars, fvars, svars, pvars, tvars, evars, hvars, lvars>>

----------------------------------------------------------------------------
(* Worker threads: actions *)

\* what a step of the thread model leaves alone
ThreadsFrame == UNCHANGED <<vars, fvars, svars, pvars, tvars, evars, lvars>>

\* start(): returns at once when is_running is set, else sets it, creates
\* the thread and starts it
StartCall ==
    /\ ui_call = "none"
    /\ IF running_flag
       THEN /\ last_call' = "start_ignored"
            /\ UNCHANGED <<running_flag, self_thread, threads>>
       ELSE /\ self_thread < MaxThreads
            /\ running_flag' = TRUE
            /\ self_thread' = self_thread + 1
            /\ threads' = [threads EXCEPT ![self_thread + 1] = "started"]
            /\ last_call' = "start"
    /\ UNCHANGED <<self_loop, ui_call>>
    /\ ThreadsFrame

\* stop(): is_running = False, then self.thread.join(timeout=5.0)
StopCall ==
    /\ ui_call = "none"
    /\ running_flag' = FALSE
    /\ ui_call' = IF self_thread = 0 THEN "none" ELSE "join"
    /\ last_call' = "stop"
    /\ UNCHANGED <<self_thread, threads, self_loop>>
    /\ ThreadsFrame

\* join returns: the thread has ended, or the five seconds are over
JoinReturns(timed_out) ==
    /\ ui_call = "join"
    /\ timed_out \/ threads[self_thread] \in {"exited", "crashed"}
    /\ ui_call' = "none"
    /\ last_call' = IF threads[self_thread] \in {"exited", "crashed"}
                    THEN "joined" ELSE "join_timeout"
    /\ UNCHANGED <<running_flag, self_thread, threads, self_loop>>
    /\ ThreadsFrame

\* a started thread runs _run_event_loop up to run_until_complete
ThreadEnters(t) ==
    /\ threads[t] = "started"
    /\ threads' = [threads EXCEPT ![t] = EnterLoop(self_loop)]
    /\ self_loop' = IF EnterLoop(self_loop) = "looping" THEN "running"
                    ELSE self_loop
    /\ UNCHANGED <<running_flag, self_thread, ui_call, last_call>>
    /\ ThreadsFrame

\* _main_loop returns once it reads is_running False at the head of its
\* while loop, or an exception leaves it; the finally clause closes the loop
MainLoopEnds(t, raised_out) ==
    /\ threads[t] = "looping"
    /\ raised_out \/ ~running_flag
    /\ threads' = [threads EXCEPT ![t] = "exited"]
    /\ self_loop' = "closed"
    /\ UNCHANGED <<running_flag, self_thread, ui_call, last_call>>
    /\ ThreadsFrame

ThreadsInit ==
    /\ SupervisorIdle
    /\ LegacyIdle
    /\ FactoryIdle
    /\ SpeedIdle
    /\ PacketIdle
    /\ StatusIdle
    /\ EffectIdle
    /\ ThreadsIdle

ThreadsNext ==
    \/ StartCall
    \/ StopCall
    \/ \E timed_out \in BOOLEAN : JoinReturns(timed_out)
    \/ \E t \in 1..MaxThreads : ThreadEnters(t)
    \/ \E t \in 1..MaxThreads, raised_out \in BOOLEAN : MainLoopEnds(t, raised_out)

SpecThreads == ThreadsInit /\ [][ThreadsNext]_<<vars, fvars, svars, pvars, tvars, evars, hvars, lvars>>

----------------------------------------------------------------------------
(* The communication loop of src/ble_controller.py: actions *)

\* what a step of this loop leaves alone
LegacyFrame == UNCHANGED <<vars, fvars, svars, pvars, tvars, evars, hvars>>

\* start() and a successful connect: the worker enters the while loop
LegacyConnects ==
    /\ legacy_pc \in {"idle", "left"}
    /\ legacy_completed < MaxIterations
    /\ legacy_pc' = "head"
    /\ legacy_link' = TRUE
    /\ legacy_running' = TRUE
    /\ legacy_iteration' = NoIteration
    /\ UNCHANGED <<legacy_force, legacy_last, legacy_completed>>
    /\ LegacyFrame

\* the link drops, stop() or request_disconnect() while the loop runs
LegacyDisturbed(what) ==
    /\ legacy_pc \in {"head", "exec", "sleep"}
    /\ legacy_link' = (legacy_link /\ what # "link")
    /\ legacy_running' = (legacy_running /\ what # "stop")
    /\ legacy_force' = (legacy_force \/ what = "disconnect")
    /\ <<legacy_link', legacy_running', legacy_force'>> #
          <<legacy_link, legacy_running, legacy_force>>
    /\ UNCHANGED <<legacy_pc, legacy_iteration, legacy_last, legacy_completed>>
    /\ LegacyFrame

\* the head of the while loop and the try block with the periodic
\* signal-strength read: unless the read raises, control falls through to
\* the end of the loop body and the iteration is complete
LegacyHead(rssi) ==
    /\ legacy_pc = "head"
    /\ IF ~LegacyGoesOn(legacy_link, legacy_running, legacy_force)
       THEN /\ rssi = "not_due"
            /\ legacy_pc' = "left"
            /\ UNCHANGED <<legacy_iteration, legacy_last, legacy_completed>>
       ELSE /\ legacy_completed < MaxIterations
            /\ IF rssi = "raise"
               THEN /\ legacy_pc' = "exec"
                    /\ legacy_iteration' = [NoIteration EXCEPT !.rssi = rssi]
                    /\ UNCHANGED <<legacy_last, legacy_completed>>
               ELSE /\ legacy_pc' = "head"
                    /\ legacy_iteration' = NoIteration
                    /\ legacy_last' = [NoIteration EXCEPT !.rssi = rssi]
                    /\ legacy_completed' = legacy_completed + 1
    /\ UNCHANGED <<legacy_link, legacy_running, legacy_force>>
    /\ LegacyFrame

\* the except block of the signal-strength read: await self._execute_mode()
LegacyExec ==
    /\ legacy_pc = "exec"
    /\ legacy_pc' = "sleep"
    /\ legacy_iteration' =
         [legacy_iteration EXCEPT !.executed = legacy_iteration.executed + 1]
    /\ UNCHANGED <<legacy_link, legacy_running, legacy_force, legacy_last,
                   legacy_completed>>
    /\ LegacyFrame

\* the except block goes on: await asyncio.sleep(0.1); the iteration is
\* complete
LegacySleep ==
    /\ legacy_pc = "sleep"
    /\ legacy_pc' = "head"
    /\ legacy_last' = [legacy_iteration EXCEPT !.slept = TRUE]
    /\ legacy_iteration' = NoIteration
    /\ legacy_completed' = legacy_completed + 1
    /\ UNCHANGED <<legacy_link, legacy_running, legacy_force>>
    /\ LegacyFrame

LegacyInit ==
    /\ SupervisorIdle
    /\ FactoryIdle
    /\ SpeedIdle
    /\ PacketIdle
    /\ StatusIdle
    /\ EffectIdle
    /\ ThreadsIdle
    /\ LegacyIdle

LegacyNext ==
    \/ LegacyConnects
    \/ \E what \in {"link", "stop", "disconnect"} : LegacyDisturbed(what)
    \/ \E rssi \in {"not_due", "value", "no_value", "raise"} : LegacyHead(rssi)
    \/ LegacyExec
    \/ LegacySleep

SpecLegacy == LegacyInit /\ [][LegacyNext]_<<vars, fvars, svars, pvars, tvars, evars, hvars, lvars>>

----------------------------------------------------------------------------
Init ==
    /\ pc = "idle"
    /\ is_running = FALSE
    /\ auto_reconnect \in BOOLEAN
    /\ reconnect_interval \in {ClampInterval(x) : x \in {250, 5000, 600000}}
    /\ current_backoff = reconnect_interval
    /\ reconnect_count = 0
    /\ current_mode = "MANUAL"
    /\ force_disconnect = FALSE
    /\ status_is_connected = FALSE
    /\ status_error_message = "none"
    /\ client = "none"
    /\ link_up = FALSE
    /\ device_driver = "none"
    /\ sleep_for = 0
    /\ i = 0
    /\ idx = 0
    /\ exit_reason = "none"
    /\ paused = FALSE
    /\ stale_frames = 0
    /\ fail_streak = 0
    /\ raised = NoException
    /\ callback = "none"
    /\ telemetry = "none"
    /\ UnitsIdle

----------------------------------------------------------------------------
(* UI thread *)

\* start()
Start ==
    /\ ~is_running
    /\ is_running' = TRUE
    /\ pc' = IF pc = "idle" THEN "loop_top" ELSE pc
    /\ UNCHANGED <<auto_reconnect, reconnect_interval, current_backoff,
                   reconnect_count, current_mode, force_disconnect,
                   status_is_connected, status_error_message, client,
                   link_up, device_driver, sleep_for, i, idx,
                   exit_reason, paused, stale_frames, fail_streak>>
    /\ UNCHANGED <<raised, callback, telemetry>>
    /\ UNCHANGED uvars

\* stop()
Stop ==
    /\ is_running
    /\ is_running' = FALSE
    /\ UNCHANGED <<pc, auto_reconnect, reconnect_interval, current_backoff,
                   reconnect_count, current_mode, force_disconnect,
                   status_is_connected, status_error_message, client,
                   link_up, device_driver, sleep_for, i, idx,
                   exit_reason, paused, stale_frames, fail_streak>>
    /\ UNCHANGED <<raised, callback, telemetry>>
    /\ UNCHANGED uvars

\* the animation the worker is inside, "none" outside BREATH/RAINBOW
Animation(p) ==
    IF p \in {"breath_check", "breath_send"} THEN "BREATH"
    ELSE IF p \in {"rainbow_check", "rainbow_send"} THEN "RAINBOW"
    ELSE "none"

\* set_mode(mode)
SetMode(m) ==
    /\ current_mode # m
    /\ current_mode' = m
    /\ stale_frames' = IF m = Animation(pc) THEN 0 ELSE stale_frames
    /\ UNCHANGED <<pc, is_running, auto_reconnect, reconnect_interval,
                   current_backoff, reconnect_count, force_disconnect,
                   status_is_connected, status_error_message, client,
                   link_up, device_driver, sleep_for, i, idx,
                   exit_reason, paused, fail_streak>>
    /\ UNCHANGED <<raised, callback, telemetry>>
    /\ UNCHANGED uvars

\* request_disconnect()
RequestDisconnect ==
    /\ ~force_disconnect
    /\ force_disconnect' = TRUE
    /\ UNCHANGED <<pc, is_running, auto_reconnect, reconnect_interval,
                   current_backoff, reconnect_count, current_mode,
                   status_is_connected, status_error_message, client,
                   link_up, device_driver, sleep_for, i, idx,
                   exit_reason, paused, stale_frames, fail_streak>>
    /\ UNCHANGED <<raised, callback, telemetry>>
    /\ UNCHANGED uvars

----------------------------------------------------------------------------
(* Environment: the radio link of the open transport drops *)

LinkDrop ==
    /\ client = "open"
    /\ link_up
    /\ link_up' = FALSE
    /\ UNCHANGED <<pc, is_running, auto_reconnect, reconnect_interval,
                   current_backoff, reconnect_count, current_mode,
                   force_disconnect, status_is_connected, status_error_message,
                   client, device_driver, sleep_for, i, idx,
                   exit_reason, paused, stale_frames, fail_streak>>
    /\ UNCHANGED <<raised, callback, telemetry>>
    /\ UNCHANGED uvars

----------------------------------------------------------------------------
(* Worker: _main_loop *)

\* a step of the worker that catches no exception, invokes no callback and
\* takes no telemetry
Quiet ==
    /\ raised' = NoException
    /\ callback' = "none"
    /\ telemetry' = "none"

\* an exception raised inside the try block of _main_loop: the except block
\* up to its sleep; leaving the async with block closes the transport
Escape(exc, cb, tel) ==
    /\ pc' = "recover_sleep"
    /\ status_is_connected' = FALSE
    /\ status_error_message' = ErrorMessage[exc]
    /\ sleep_for' = RecoverySleep(auto_reconnect, current_backoff)
    /\ exit_reason' = "exception"
    /\ paused' = FALSE
    /\ fail_streak' = Min(MaxStreak, fail_streak + 1)
    /\ link_up' = FALSE
    /\ raised' = exc
    /\ callback' = cb
    /\ telemetry' = tel
    /\ UNCHANGED <<is_running, auto_reconnect, reconnect_interval,
                   current_backoff, reconnect_count, current_mode,
                   force_disconnect, client, device_driver, i, idx,
                   stale_frames>>
    /\ UNCHANGED uvars

\* an exception raised inside the except block of _main_loop leaves the
\* coroutine; _run_event_loop logs it and closes the loop
WorkerDies(exc, cb) ==
    /\ pc' = "done"
    /\ status_is_connected' = FALSE
    /\ status_error_message' = ErrorMessage[exc]
    /\ exit_reason' = "exception"
    /\ raised' = exc
    /\ callback' = cb
    /\ telemetry' = "none"
    /\ UNCHANGED <<is_running, auto_reconnect, reconnect_interval,
                   current_backoff, reconnect_count, current_mode,
                   force_disconnect, client, link_up, device_driver,
                   sleep_for, i, idx, paused, stale_frames, fail_streak>>
    /\ UNCHANGED uvars

\* while self.is_running: ... self.status.is_connected = False; emit "scanning"
LoopTop(cb) ==
    /\ pc = "loop_top"
    /\ (cb = "none") = ~is_running
    /\ IF EmitStatusChange(cb) = "raise"
       THEN Escape(CallbackError, cb, "none")
       ELSE /\ IF is_running
               THEN /\ pc' = "search"
                    /\ status_is_connected' = FALSE
               ELSE /\ pc' = "done"
                    /\ UNCHANGED status_is_connected
            /\ UNCHANGED <<is_running, auto_reconnect, reconnect_interval,
                           current_backoff, reconnect_count, current_mode,
                           force_disconnect, status_error_message, client, link_up,
                           device_driver, sleep_for, i, idx,
                           exit_reason, paused, stale_frames, fail_streak>>
            /\ raised' = NoException
            /\ callback' = cb
            /\ telemetry' = "none"
            /\ UNCHANGED uvars

\* device = await self._find_device(), a device was found: the driver is
\* initialised, the miss counter and the backoff are reset
DiscoveryHit(cb) ==
    /\ pc = "search"
    /\ cb # "none"
    /\ IF EmitStatusChange(cb) = "raise"
       THEN Escape(CallbackError, cb, "none")
       ELSE /\ pc' = "connecting"
            /\ device_driver' = "bound"
            /\ reconnect_count' = 0
            /\ current_backoff' = DiscoveryBackoff(current_backoff, reconnect_interval)
            /\ exit_reason' = "none"
            /\ paused' = FALSE
            /\ UNCHANGED <<is_running, auto_reconnect, reconnect_interval,
                           current_mode, force_disconnect, status_is_connected,
                           status_error_message, client, link_up,
                           sleep_for, i, idx, stale_frames, fail_streak>>
            /\ raised' = NoException
            /\ callback' = cb
            /\ telemetry' = "none"
            /\ UNCHANGED uvars

\* device = await self._find_device(), nothing found: count the miss and sleep
DiscoveryMiss(cb) ==
    /\ pc = "search"
    /\ (cb # "none") = (reconnect_count + 1 > max_reconnect_attempts)
    /\ IF EmitStatusChange(cb) = "raise"
       THEN Escape(CallbackError, cb, "none")
       ELSE /\ pc' = "miss_sleep"
            /\ reconnect_count' = reconnect_count + 1
            /\ sleep_for' = MissDelay(reconnect_count + 1)
            /\ UNCHANGED <<is_running, auto_reconnect, reconnect_interval,
                           current_backoff, current_mode, force_disconnect,
                           status_is_connected, status_error_message, client,
                           link_up, device_driver, i, idx, exit_reason,
                           paused, stale_frames, fail_streak>>
            /\ raised' = NoException
            /\ callback' = cb
            /\ telemetry' = "none"
            /\ UNCHANGED uvars

\* the miss delay elapsed: reconnect_count = 0 after the cool-down; continue
MissWake ==
    /\ pc = "miss_sleep"
    /\ pc' = "loop_top"
    /\ reconnect_count' = MissCountAfter(reconnect_count)
    /\ sleep_for' = 0
    /\ paused' = TRUE
    /\ UNCHANGED <<is_running, auto_reconnect, reconnect_interval,
                   current_backoff, current_mode, force_disconnect,
                   status_is_connected, status_error_message, client,
                   link_up, device_driver, i, idx, exit_reason,
                   stale_frames, fail_streak>>
    /\ Quiet
    /\ UNCHANGED uvars

\* async with BleakClient(device) as client: the connect succeeded;
\* self.client = client; await self.device_driver.connect(client)
ConnectOk(cb) ==
    /\ pc = "connecting"
    /\ cb # "none"
    /\ IF EmitStatusChange(cb) = "raise"
       THEN Escape(CallbackError, cb, "none")
       ELSE /\ pc' = "comm_top"
            /\ client' = "open"
            /\ link_up' = TRUE
            /\ device_driver' = IF device_driver = "none" THEN "none" ELSE "connected"
            /\ status_is_connected' = TRUE
            /\ fail_streak' = 0
            /\ UNCHANGED <<is_running, auto_reconnect, reconnect_interval,
                           current_backoff, reconnect_count, current_mode,
                           force_disconnect, status_error_message, sleep_for, i, idx,
                           exit_reason, paused, stale_frames>>
            /\ raised' = NoException
            /\ callback' = cb
            /\ telemetry' = "none"
            /\ UNCHANGED uvars

\* the connect raised: except Exception -> recovery path up to the sleep
ConnectRaise(exc, cb) ==
    /\ pc = "connecting"
    /\ exc \in ExceptionInputs
    /\ cb # "none"
    /\ IF EmitStatusChange(cb) = "raise"
       THEN WorkerDies(exc, cb)
       ELSE /\ pc' = "recover_sleep"
            /\ status_is_connected' = FALSE
            /\ status_error_message' = ErrorMessage[exc]
            /\ sleep_for' = RecoverySleep(auto_reconnect, current_backoff)
            /\ exit_reason' = "exception"
            /\ paused' = FALSE
            /\ fail_streak' = Min(MaxStreak, fail_streak + 1)
            /\ UNCHANGED <<is_running, auto_reconnect, reconnect_interval,
                           current_backoff, reconnect_count, current_mode,
                           force_disconnect, client, link_up,
                           device_driver, i, idx, stale_frames>>
            /\ raised' = exc
            /\ callback' = cb
            /\ telemetry' = "none"
            /\ UNCHANGED uvars

\* the recovery sleep elapsed: increase backoff
RecoverWake ==
    /\ pc = "recover_sleep"
    /\ pc' = "teardown"
    /\ current_backoff' = FailureBackoff(auto_reconnect, current_backoff, reconnect_interval)
    /\ sleep_for' = 0
    /\ paused' = TRUE
    /\ UNCHANGED <<is_running, auto_reconnect, reconnect_interval,
                   reconnect_count, current_mode, force_disconnect,
                   status_is_connected, status_error_message, client,
                   link_up, device_driver, i, idx, exit_reason,
                   stale_frames, fail_streak>>
    /\ Quiet
    /\ UNCHANGED uvars

\* await self.device_driver.disconnect(); self.client = None
Teardown ==
    /\ pc = "teardown"
    /\ pc' = "loop_top"
    /\ client' = "none"
    /\ link_up' = FALSE
    /\ device_driver' = IF device_driver = "none" THEN "none" ELSE "bound"
    /\ UNCHANGED <<is_running, auto_reconnect, reconnect_interval,
                   current_backoff, reconnect_count, current_mode,
                   force_disconnect, status_is_connected,
                   status_error_message, sleep_for, i, idx, exit_reason,
                   paused, stale_frames, fail_streak>>
    /\ Quiet
    /\ UNCHANGED uvars

\* why the communication loop ends at its head, "none" when it goes on
ExitReason(up, running, force) ==
    IF ~running THEN "shutdown"
    ELSE IF ~up THEN "link_lost"
    ELSE IF force THEN "user_disconnect"
    ELSE "none"

\* variant: a user disconnect leaves the loop through the exception handler
CommTop_DisconnectRaises(rssi, cb) ==
    /\ pc = "comm_top"
    /\ rssi \in RssiOutcomes
    /\ ExitReason(link_up, is_running, force_disconnect) # "none" =>
          rssi = "not_due"
    /\ (cb # "none") = (rssi = "value")
    /\ LET why == ExitReason(link_up, is_running, force_disconnect) IN
       /\ exit_reason' = why
       /\ paused' = IF why = "none" THEN paused ELSE FALSE
       /\ pc' = CASE why = "none" -> "exec_mode"
                  [] why = "user_disconnect" -> "recover_sleep"
                  [] OTHER -> "close"
       /\ sleep_for' = IF why = "user_disconnect"
                       THEN RecoverySleep(auto_reconnect, current_backoff)
                       ELSE sleep_for
       /\ status_error_message' = IF why = "user_disconnect"
                                  THEN ErrorMessage[CallbackError]
                                  ELSE status_error_message
    /\ UNCHANGED <<is_running, auto_reconnect, reconnect_interval,
                   current_backoff, reconnect_count, current_mode,
                   force_disconnect, status_is_connected, client, link_up,
                   device_driver, i, idx, stale_frames, fail_streak>>
    /\ raised' = NoException
    /\ callback' = cb
    /\ telemetry' = CASE rssi = "value" -> "rssi_ok"
                      [] rssi = "failed" -> "rssi_failed"
                      [] OTHER -> "none"
    /\ UNCHANGED uvars

\* while client.is_connected and self.is_running: if self.force_disconnect:
\* break; then the periodic RSSI read inside its own try/except, which
\* emits "RSSI updated" when it got an int
CommTop(rssi, cb) ==
    /\ pc = "comm_top"
    /\ rssi \in RssiOutcomes
    /\ ExitReason(link_up, is_running, force_disconnect) # "none" =>
          rssi = "not_due"
    /\ (cb # "none") = (rssi = "value")
    /\ LET why == ExitReason(link_up, is_running, force_disconnect) IN
       IF why = "none"
       THEN /\ pc' = "exec_mode"
            /\ UNCHANGED <<exit_reason, paused>>
       ELSE /\ pc' = "close"
            /\ exit_reason' = why
            /\ paused' = FALSE
    /\ UNCHANGED <<is_running, auto_reconnect, reconnect_interval,
                   current_backoff, reconnect_count, current_mode,
                   force_disconnect, status_is_connected,
                   status_error_message, client, link_up, device_driver,
                   sleep_for, i, idx, stale_frames, fail_streak>>
    /\ raised' = NoException
    /\ callback' = cb
    /\ telemetry' = CASE rssi = "value" -> "rssi_ok"
                      [] rssi = "failed" -> "rssi_failed"
                      [] OTHER -> "none"
    /\ UNCHANGED uvars

\* leaving the async with block closes the transport
Close ==
    /\ pc = "close"
    /\ pc' = "teardown"
    /\ link_up' = FALSE
    /\ UNCHANGED <<is_running, auto_reconnect, reconnect_interval,
                   current_backoff, reconnect_count, current_mode,
                   force_disconnect, status_is_connected,
                   status_error_message, client,
                   device_driver, sleep_for, i, idx, exit_reason, paused,
                   stale_frames, fail_streak>>
    /\ Quiet
    /\ UNCHANGED uvars

\* await asyncio.sleep(0.1) at the end of an iteration
CommWake ==
    /\ pc = "comm_sleep"
    /\ pc' = "comm_top"
    /\ sleep_for' = 0
    /\ UNCHANGED <<is_running, auto_reconnect, reconnect_interval,
                   current_backoff, reconnect_count, current_mode,
                   force_disconnect, status_is_connected,
                   status_error_message, client, link_up,
                   device_driver, i, idx, exit_reason, paused, stale_frames,
                   fail_streak>>
    /\ Quiet
    /\ UNCHANGED uvars

----------------------------------------------------------------------------
(* Worker: Effect Engine *)

\* results of device_driver.set_color: True, False, or an exception
SendOutcomes == {"ok", "false", "raise"}

\* results of psutil.cpu_percent: an exception or a utilisation band
CpuSamples == {"raise", "low", "mid", "high"}

\* _send_color: only an exception of the driver touches the connection
\* state; on_color_received is called after a successful set_color
SendColor(outcome, cb) ==
    /\ outcome \in SendOutcomes
    /\ outcome = "ok" => link_up
    /\ (cb # "none") = (device_driver # "none" /\ outcome = "ok")
    /\ IF /\ device_driver # "none"
          /\ outcome = "raise" \/ OnColorReceived(cb) = "raise"
       THEN /\ status_is_connected' = FALSE
            /\ current_backoff' = FailureBackoff(auto_reconnect, current_backoff, reconnect_interval)
       ELSE UNCHANGED <<status_is_connected, current_backoff>>

\* the pc at which _execute_mode continues for the selected mode
Dispatch(m) ==
    CASE m = "MANUAL" -> "manual_send"
      [] m = "CPU" -> "cpu_send"
      [] m = "BREATH" -> "breath_check"
      [] m = "RAINBOW" -> "rainbow_check"

\* await self._execute_mode(): branch on self.current_mode
ExecMode ==
    /\ pc = "exec_mode"
    /\ pc' = Dispatch(current_mode)
    /\ i' = 0
    /\ idx' = 0
    /\ stale_frames' = 0
    /\ UNCHANGED <<is_running, auto_reconnect, reconnect_interval,
                   current_backoff, reconnect_count, current_mode,
                   force_disconnect, status_is_connected,
                   status_error_message, client, link_up,
                   device_driver, sleep_for, exit_reason, paused,
                   fail_streak>>
    /\ Quiet
    /\ UNCHANGED uvars

\* MANUAL: await self._send_color(self.current_color)
ManualSend(outcome, cb) ==
    /\ pc = "manual_send"
    /\ SendColor(outcome, cb)
    /\ pc' = "comm_sleep"
    /\ sleep_for' = SleepQuantum
    /\ UNCHANGED <<is_running, auto_reconnect, reconnect_interval,
                   reconnect_count, current_mode, force_disconnect,
                   status_error_message, client, link_up,
                   device_driver, i, idx, exit_reason, paused, stale_frames,
                   fail_streak>>
    /\ raised' = NoException
    /\ callback' = cb
    /\ telemetry' = "none"
    /\ UNCHANGED uvars

\* CPU: _execute_cpu_mode; a failing sample sends nothing
CpuSend(sample, outcome, cb) ==
    /\ pc = "cpu_send"
    /\ sample \in CpuSamples
    /\ sample = "raise" => (outcome = "false" /\ cb = "none")
    /\ IF SampleEscapes(sample)
       THEN Escape(SampleError, cb, "cpu_failed")
       ELSE /\ IF sample = "raise"
               THEN UNCHANGED <<status_is_connected, current_backoff>>
               ELSE SendColor(outcome, cb)
            /\ pc' = "comm_sleep"
            /\ sleep_for' = SleepQuantum
            /\ UNCHANGED <<is_running, auto_reconnect, reconnect_interval,
                           reconnect_count, current_mode, force_disconnect,
                           status_error_message, client, link_up,
                           device_driver, i, idx, exit_reason, paused,
                           stale_frames, fail_streak>>
            /\ raised' = NoException
            /\ callback' = cb
            /\ telemetry' = IF sample = "raise" THEN "cpu_failed" ELSE "cpu_ok"
            /\ UNCHANGED uvars

\* variant: the loop head does not look at the selected mode
BreathGoesOn_NoModeCheck(n, m, running) == n < BreathSteps /\ running

\* BREATH: the loop head of one iteration of for i in range(...)
BreathGoesOn(n, m, running) == n < BreathSteps /\ m = "BREATH" /\ running

BreathCheck ==
    /\ pc = "breath_check"
    /\ IF BreathGoesOn(i, current_mode, is_running)
       THEN /\ pc' = "breath_send"
            /\ UNCHANGED <<sleep_for, stale_frames, i, idx>>
       ELSE /\ pc' = "comm_sleep"
            /\ sleep_for' = SleepQuantum
            /\ stale_frames' = 0
            /\ i' = 0
            /\ idx' = 0
    /\ UNCHANGED <<is_running, auto_reconnect, reconnect_interval,
                   current_backoff, reconnect_count, current_mode,
                   force_disconnect, status_is_connected,
                   status_error_message, client, link_up,
                   device_driver, exit_reason, paused, fail_streak>>
    /\ Quiet
    /\ UNCHANGED uvars

\* BREATH: await self._send_color(color); await asyncio.sleep(0.02)
BreathSend(outcome, cb) ==
    /\ pc = "breath_send"
    /\ SendColor(outcome, cb)
    /\ pc' = "breath_check"
    /\ i' = i + 1
    /\ stale_frames' = IF current_mode # "BREATH" THEN stale_frames + 1 ELSE stale_frames
    /\ UNCHANGED <<is_running, auto_reconnect, reconnect_interval,
                   reconnect_count, current_mode, force_disconnect,
                   status_error_message, client, link_up,
                   device_driver, sleep_for, idx, exit_reason, paused,
                   fail_streak>>
    /\ raised' = NoException
    /\ callback' = cb
    /\ telemetry' = "none"
    /\ UNCHANGED uvars

\* a RAINBOW loop that goes on for as long as the mode is RAINBOW
RainbowGoesOn_NoRunningCheck(m, running) == m = "RAINBOW"

\* RAINBOW: while self.current_mode == ColorMode.RAINBOW and self.is_running
RainbowGoesOn(m, running) == m = "RAINBOW" /\ running

RainbowCheck ==
    /\ pc = "rainbow_check"
    /\ IF RainbowGoesOn(current_mode, is_running)
       THEN /\ pc' = "rainbow_send"
            /\ UNCHANGED <<sleep_for, stale_frames, i, idx>>
       ELSE /\ pc' = "comm_sleep"
            /\ sleep_for' = SleepQuantum
            /\ stale_frames' = 0
            /\ i' = 0
            /\ idx' = 0
    /\ UNCHANGED <<is_running, auto_reconnect, reconnect_interval,
                   current_backoff, reconnect_count, current_mode,
                   force_disconnect, status_is_connected,
                   status_error_message, client, link_up,
                   device_driver, exit_reason, paused, fail_streak>>
    /\ Quiet
    /\ UNCHANGED uvars

\* RAINBOW: send colors[idx % len(colors)]; idx += 1; await asyncio.sleep(0.5)
RainbowSend(outcome, cb) ==
    /\ pc = "rainbow_send"
    /\ SendColor(outcome, cb)
    /\ pc' = "rainbow_check"
    /\ idx' = (idx + 1) % PaletteLen
    /\ stale_frames' = IF current_mode # "RAINBOW" THEN stale_frames + 1 ELSE stale_frames
    /\ UNCHANGED <<is_running, auto_reconnect, reconnect_interval,
                   reconnect_count, current_mode, force_disconnect,
                   status_error_message, client, link_up,
                   device_driver, sleep_for, i, exit_reason, paused,
                   fail_streak>>
    /\ raised' = NoException
    /\ callback' = cb
    /\ telemetry' = "none"
    /\ UNCHANGED uvars

----------------------------------------------------------------------------
Next ==
    \/ Start
    \/ Stop
    \/ \E m \in Modes : SetMode(m)
    \/ RequestDisconnect
    \/ LinkDrop
    \/ \E cb \in CallbackInputs : LoopTop(cb)
    \/ \E cb \in CallbackInputs : DiscoveryHit(cb)
    \/ \E cb \in CallbackInputs : DiscoveryMiss(cb)
    \/ MissWake
    \/ \E cb \in CallbackInputs : ConnectOk(cb)
    \/ \E exc \in ExceptionInputs, cb \in CallbackInputs : ConnectRaise(exc, cb)
    \/ RecoverWake
    \/ Teardown
    \/ \E rssi \in RssiOutcomes, cb \in CallbackInputs : CommTop(rssi, cb)
    \/ Close
    \/ CommWake
    \/ ExecMode
    \/ \E outcome \in SendOutcomes, cb \in CallbackInputs :
         ManualSend(outcome, cb)
    \/ \E sample \in CpuSamples, outcome \in SendOutcomes :
         \E cb \in CallbackInputs : CpuSend(sample, outcome, cb)
    \/ BreathCheck
    \/ \E outcome \in SendOutcomes, cb \in CallbackInputs :
         BreathSend(outcome, cb)
    \/ RainbowCheck
    \/ \E outcome \in SendOutcomes, cb \in CallbackInputs :
         RainbowSend(outcome, cb)

Spec == Init /\ [][Next]_vars

\* the steps of the coroutine _main_loop on the worker thread's event loop
Worker ==
    \/ \E cb \in CallbackInputs : LoopTop(cb)
    \/ \E cb \in CallbackInputs : DiscoveryHit(cb)
    \/ \E cb \in CallbackInputs : DiscoveryMiss(cb)
    \/ MissWake
    \/ \E cb \in CallbackInputs : ConnectOk(cb)
    \/ \E exc \in ExceptionInputs, cb \in CallbackInputs : ConnectRaise(exc, cb)
    \/ RecoverWake
    \/ Teardown
    \/ \E rssi \in RssiOutcomes, cb \in CallbackInputs : CommTop(rssi, cb)
    \/ Close
    \/ CommWake
    \/ ExecMode
    \/ \E outcome \in SendOutcomes, cb \in CallbackInputs :
         ManualSend(outcome, cb)
    \/ \E sample \in CpuSamples, outcome \in SendOutcomes :
         \E cb \in CallbackInputs : CpuSend(sample, outcome, cb)
    \/ BreathCheck
    \/ \E outcome \in SendOutcomes, cb \in CallbackInputs :
         BreathSend(outcome, cb)
    \/ RainbowCheck
    \/ \E outcome \in SendOutcomes, cb \in CallbackInputs :
         RainbowSend(outcome, cb)

\* loop.run_until_complete(self._main_loop()): the event loop keeps running
\* the coroutine, and every await in it (scan and connect with their
\* timeouts, asyncio.sleep) completes
SpecLive == Init /\ [][Next]_vars /\ WF_vars(Worker)

TypeOK ==
    /\ pc \in {"idle", "loop_top", "search", "miss_sleep", "connecting",
               "recover_sleep", "teardown", "comm_top", "close", "comm_sleep",
               "exec_mode", "manual_send", "cpu_send", "breath_check",
               "breath_send", "rainbow_check", "rainbow_send", "done"}
    /\ is_running \in BOOLEAN
    /\ current_mode \in Modes
    /\ reconnect_count \in 0..(max_reconnect_attempts + 1)
    /\ i \in 0..BreathSteps
    /\ idx \in 0..(PaletteLen - 1)
    /\ fail_streak \in 0..MaxStreak

----------------------------------------------------------------------------
(* Claims about the reconnect policy *)

\* the worker takes a step (UI and environment steps leave pc alone)
WorkerStep == pc' # pc

\* C1: in every reachable state the stored backoff delay current_backoff is
\* at most the ceiling backoff_max, for every configured base interval.
C1_BackoffWithinCeiling == current_backoff <= backoff_max

\* C2: with auto-reconnect, base 5.0 s and factor 2.0, the recovery sleep of
\* the first failed cycle is 5.0 s, that of the second consecutive failed
\* cycle is 10.0 s, and no recovery sleep exceeds the ceiling.
C2_ConsecutiveFailureSleeps ==
    (pc = "recover_sleep" /\ auto_reconnect /\ reconnect_interval = 5000) =>
        /\ fail_streak = 1 => sleep_for = 5000
        /\ fail_streak = 2 => sleep_for = 10000
        /\ sleep_for <= backoff_max

\* C3: whenever discovery returned a device, current_backoff equals the
\* configured base interval at the moment the connect attempt starts.
C3_DiscoveryResetsBackoff ==
    pc = "connecting" => current_backoff = reconnect_interval

\* C3 witness: a connect attempt that starts after an earlier failed cycle
\* had grown the backoff.
C3_Witness ==
    /\ pc = "connecting"
    /\ fail_streak >= 1
    /\ auto_reconnect
    /\ reconnect_interval < backoff_max

\* C4: with auto-reconnect, an exception in the cycle marks the status
\* disconnected and sleeps exactly min(current_backoff, backoff_max);
\* after the sleep current_backoff is
\* min(backoff_max, max(current_backoff * factor, base interval)).
C4_RecoveryStep ==
    [][/\ (pc = "connecting" /\ pc' = "recover_sleep" /\ auto_reconnect) =>
            /\ ~status_is_connected'
            /\ sleep_for' = (IF current_backoff < 300000 THEN current_backoff ELSE 300000)
            /\ current_backoff' = current_backoff
       /\ (pc = "connecting" /\ WorkerStep) => pc' \in {"comm_top", "recover_sleep"}
       /\ (pc = "recover_sleep" /\ WorkerStep /\ auto_reconnect) =>
            LET grown == IF current_backoff * 2 > reconnect_interval
                         THEN current_backoff * 2 ELSE reconnect_interval
            IN current_backoff' = (IF grown < 300000 THEN grown ELSE 300000)
      ]_vars

\* C4 witness: the recovery step has completed with auto-reconnect on and
\* the backoff has doubled.
C4_Witness ==
    /\ pc = "teardown"
    /\ exit_reason = "exception"
    /\ auto_reconnect
    /\ paused
    /\ ~status_is_connected
    /\ current_backoff = 2 * reconnect_interval

\* C5: between two successful discoveries current_backoff never decreases,
\* and the recovery step strictly increases it while it is below the
\* ceiling and auto-reconnect is on.
C5_BackoffMonotone ==
    [][/\ pc # "search" => current_backoff' >= current_backoff
       /\ (pc = "recover_sleep" /\ WorkerStep /\ auto_reconnect
             /\ current_backoff < backoff_max) => current_backoff' > current_backoff
      ]_vars

\* C6: with auto-reconnect disabled a failure in the cycle is followed by
\* the fixed 5 s delay, and no failure path changes current_backoff.
C6_NoBackoffWithoutAutoReconnect ==
    [][~auto_reconnect =>
          /\ pc # "search" => current_backoff' = current_backoff
          /\ (pc = "connecting" /\ pc' = "recover_sleep") => sleep_for' = 5000
      ]_vars

\* C6 witness: with auto-reconnect off, a failed cycle has slept and a
\* later send has failed while the backoff is still the base interval.
C6_Witness ==
    /\ ~auto_reconnect
    /\ fail_streak = 0
    /\ status_error_message # "none"
    /\ pc = "comm_sleep"
    /\ ~status_is_connected
    /\ link_up
    /\ current_backoff = reconnect_interval

\* C7: after the selected mode changed during BREATH or RAINBOW the
\* animation writes at most one more frame and returns at its next loop
\* head; _execute_mode then runs the mode selected at that moment.
C7_ModeSwitchPreempts ==
    /\ [](stale_frames <= 1)
    /\ [][/\ (pc \in {"breath_check", "rainbow_check"} /\ WorkerStep
                /\ current_mode # Animation(pc)) => pc' = "comm_sleep"
          /\ (pc = "exec_mode" /\ WorkerStep) =>
                /\ pc' = "manual_send" <=> current_mode = "MANUAL"
                /\ pc' = "cpu_send" <=> current_mode = "CPU"
                /\ pc' = "breath_check" <=> current_mode = "BREATH"
                /\ pc' = "rainbow_check" <=> current_mode = "RAINBOW"
         ]_vars

\* C7 witness: BREATH wrote one frame after the mode was switched away and
\* now stands at its loop head with frames of the cycle still to go.
C7_Witness ==
    /\ pc = "breath_check"
    /\ stale_frames = 1
    /\ current_mode # "BREATH"
    /\ i < BreathSteps
    /\ is_running

\* C8: a user disconnect observed by the communication loop closes the
\* transport and disconnects the driver without the recovery path: no
\* sleep, current_backoff and the error message unchanged.
C8_UserDisconnectBypassesRecovery ==
    [][(exit_reason' = "user_disconnect" /\ WorkerStep
          /\ pc \in {"comm_top", "close", "teardown"}) =>
          /\ current_backoff' = current_backoff
          /\ status_error_message' = status_error_message
          /\ sleep_for' = 0
          /\ pc = "comm_top" => pc' = "close"
          /\ pc = "close" => (pc' = "teardown" /\ ~link_up')
          /\ pc = "teardown" =>
                (pc' = "loop_top" /\ client' = "none" /\ device_driver' # "connected")
      ]_vars

\* C8 witness: the user disconnect has been served and the supervisor is
\* back at the head of the supervising loop.
C8_Witness ==
    /\ pc = "loop_top"
    /\ exit_reason = "user_disconnect"
    /\ force_disconnect
    /\ client = "none"
    /\ device_driver = "bound"
    /\ ~paused

\* C9: after a user disconnect has torn down the transport the supervisor
\* waits a fixed pause before it searches again.
C9_PauseBeforeSearch ==
    (pc = "search" /\ exit_reason = "user_disconnect") => paused

\* C10: the 1st to 10th consecutive miss is followed by the 5 s delay, the
\* 11th by the 30 s cool-down after which the counter restarts at 0; a
\* successful discovery resets the counter, a miss never changes
\* current_backoff.
C10_MissDelays ==
    /\ [](pc = "miss_sleep" =>
            /\ reconnect_count \in 1..11
            /\ sleep_for = (IF reconnect_count <= 10 THEN 5000 ELSE 30000))
    /\ [][/\ (pc = "search" /\ WorkerStep) =>
                \/ /\ pc' = "miss_sleep"
                   /\ reconnect_count' = reconnect_count + 1
                   /\ current_backoff' = current_backoff
                \/ /\ pc' = "connecting"
                   /\ reconnect_count' = 0
          /\ (pc = "miss_sleep" /\ WorkerStep) =>
                /\ pc' = "loop_top"
                /\ current_backoff' = current_backoff
                /\ reconnect_count' = (IF reconnect_count = 11 THEN 0 ELSE reconnect_count)
         ]_vars

\* C10 witness: the 11th consecutive miss is in its 30 s cool-down.
C10_Witness ==
    /\ pc = "miss_sleep"
    /\ reconnect_count = 11
    /\ sleep_for = 30000

----------------------------------------------------------------------------
(* Claims about shutdown *)

\* C11: once stop() has cleared the is-running flag, the worker eventually
\* leaves the supervising loop and terminates (or the controller has been
\* started again), from every supervisor state and in every mode, given that
\* every pending wait completes.
C11_StopTerminates ==
    (~is_running /\ pc # "idle") ~> (pc = "done" \/ is_running)

\* the worker has left the loop on the cleared flag after being stopped
\* inside the communication loop
C11_Witness ==
    /\ pc = "done"
    /\ ~is_running
    /\ exit_reason = "shutdown"

----------------------------------------------------------------------------
(* Claims about driver resolution *)

\* C12: after _initialize_driver a driver is always bound and nothing is
\* raised: with an explicit configured protocol it is the driver registered
\* under that name, whatever the device advertises; without one it is the
\* auto-detected driver; and when the name is unknown or the device cannot
\* be detected it is the ELK-BLEDOM driver.
C12_DriverAlwaysBound ==
    call_op = "initialize_driver" =>
        /\ ret_driver # "none"
        /\ ret_error = "none"
        /\ call_protocol # "" =>
              ret_driver =
                IF Strip(Lower(call_protocol)) \in DOMAIN DRIVER_REGISTRY
                THEN DRIVER_REGISTRY[Strip(Lower(call_protocol))]
                ELSE "ElkBledomDriver"
        /\ call_protocol = "" =>
              ret_driver =
                IF DetectDriver(call_device, DETECTION_ORDER).error = "none"
                THEN DetectDriver(call_device, DETECTION_ORDER).driver
                ELSE "ElkBledomDriver"

\* an explicit protocol wins over what the device advertises
C12_Witness ==
    /\ call_op = "initialize_driver"
    /\ call_protocol = "tuya"
    /\ call_device.name = "Triones-1234"
    /\ ret_driver = "TuyaDriver"

FixedOrder ==
    <<"TrionesDriver", "MagicHomeDriver", "TuyaDriver", "ElkBledomDriver">>

\* C13: auto-detection returns the driver of the first detector in the
\* order Triones, MagicHome, Tuya, ELK-BLEDOM whose can_handle_device is
\* true for the advertised name and UUIDs; a name with a vendor keyword and
\* a generic keyword resolves to the vendor driver.
C13_FirstMatchingDetector ==
    (call_op = "create_driver" /\ call_protocol = "" /\ call_device.present) =>
        \A k \in 1..Len(FixedOrder) :
            ( /\ CanHandle(FixedOrder[k], call_device.name, call_device.uuids)
              /\ \A j \in 1..(k - 1) :
                    ~CanHandle(FixedOrder[j], call_device.name, call_device.uuids) )
            => (ret_driver = FixedOrder[k] /\ ret_error = "none")

\* "Triones LED Controller" has a vendor keyword and the generic keyword LED
C13_Witness ==
    /\ call_op = "create_driver"
    /\ call_protocol = ""
    /\ call_device.name = "Triones LED Controller"
    /\ ret_driver = "TrionesDriver"

VendorKeywords ==
    {"TRIONES", "TRION", "MAGIC", "MAGICHOME", "MH-", "TUYA", "TY-",
     "SMART LIFE", "SMARTLIFE", "ELK", "BLEDOM"}

\* some advertised UUID contains the fragment, in either case
Advertises(device, fragment) ==
    \E k \in 1..Len(device.uuids) : Contains(Lower(device.uuids[k]), fragment)

\* the device is auto-detected and its name carries no vendor keyword
DetectedByUuidOnly ==
    /\ call_op = "create_driver"
    /\ call_protocol = ""
    /\ call_device.present
    /\ \A kw \in VendorKeywords : ~Contains(Upper(call_device.name), kw)

\* C14 as stated: a device whose name matches no vendor keyword and that
\* advertises a UUID with the fragment ffd9 resolves to Triones, with ffe5
\* to MagicHome, with fe95 to Tuya.
C14_UuidFragmentDecides ==
    DetectedByUuidOnly =>
        /\ Advertises(call_device, "ffd9") => ret_driver = "TrionesDriver"
        /\ Advertises(call_device, "ffe5") => ret_driver = "MagicHomeDriver"
        /\ Advertises(call_device, "fe95") => ret_driver = "TuyaDriver"

\* C14 amended: a device whose name matches no vendor keyword and that
\* advertises a UUID with the fragment ffd9 resolves to Triones; with ffe5
\* to MagicHome unless it also advertises a Triones fragment (ffd9, ffd5);
\* with fe95 to Tuya unless it also advertises a Triones or a MagicHome
\* fragment (ffd9, ffd5, ffe5, ffe9).
C14_UuidFragmentDecidesInOrder ==
    DetectedByUuidOnly =>
        /\ Advertises(call_device, "ffd9") => ret_driver = "TrionesDriver"
        /\ ( /\ Advertises(call_device, "ffe5")
              /\ \A f \in {"ffd9", "ffd5"} : ~Advertises(call_device, f) )
            => ret_driver = "MagicHomeDriver"
        /\ ( /\ Advertises(call_device, "fe95")
              /\ \A f \in {"ffd9", "ffd5", "ffe5", "ffe9"} :
                    ~Advertises(call_device, f) )
            => ret_driver = "TuyaDriver"

\* a nameless-to-the-detectors device advertising only an ffe5 UUID, in
\* upper case
C14_Witness ==
    /\ DetectedByUuidOnly
    /\ call_device.uuids = <<"0000FFE5-0000-1000-8000-00805F9B34FB">>
    /\ ret_driver = "MagicHomeDriver"

\* C15: when no detector matches, auto-detection returns an ELK-BLEDOM
\* driver if the name contains LED, RGB, CTRL or LIGHT in any case, and
\* otherwise raises the could-not-detect error and returns no driver.
C15_GenericFallback ==
    ( /\ call_op = "create_driver"
      /\ call_protocol = ""
      /\ call_device.present
      /\ \A k \in 1..Len(DETECTION_ORDER) :
            ~CanHandle(DETECTION_ORDER[k], call_device.name, call_device.uuids) )
    => IF NameHas(call_device.name, {"LED", "RGB", "CTRL", "LIGHT"})
       THEN ret_driver = "ElkBledomDriver" /\ ret_error = "none"
       ELSE ret_driver = "none" /\ ret_error = "could_not_detect"

\* the generic keywords of "Ctrl light" are not in upper case
C15_Witness ==
    /\ call_op = "create_driver"
    /\ call_protocol = ""
    /\ call_device.name = "Ctrl light"
    /\ ret_driver = "ElkBledomDriver"

\* create_driver looked the name up under key and answered accordingly
AnsweredFor(key) ==
    IF key \in DOMAIN DRIVER_REGISTRY
    THEN ret_driver = DRIVER_REGISTRY[key] /\ ret_error = "none"
    ELSE /\ ret_driver = "none"
         /\ ret_error = "unknown_protocol"
         /\ ret_available = DOMAIN DRIVER_REGISTRY

\* C16 as stated: create_driver with a protocol name returns the driver
\* registered under that name compared case-insensitively, whether or not a
\* device is supplied; an unknown name raises an error listing the valid
\* names and creates no driver; with neither name nor device it raises.
C16_LookupByLowercasedName ==
    call_op = "create_driver" =>
        /\ call_protocol # "" => AnsweredFor(Lower(call_protocol))
        /\ (call_protocol = "" /\ ~call_device.present) =>
              (ret_driver = "none" /\ ret_error = "missing_argument")

\* C16 amended: the name is compared case-insensitively after surrounding
\* whitespace has been trimmed from it.
C16_LookupByNormalizedName ==
    call_op = "create_driver" =>
        /\ call_protocol # "" => AnsweredFor(Strip(Lower(call_protocol)))
        /\ (call_protocol = "" /\ ~call_device.present) =>
              (ret_driver = "none" /\ ret_error = "missing_argument")

\* a name with surrounding blanks resolves although a device is supplied
C16_Witness ==
    /\ call_op = "create_driver"
    /\ call_protocol = " magic "
    /\ call_device.present
    /\ ret_driver = "MagicHomeDriver"

\* C17: after register_driver(name, cls) the name is supported, and
\* create_driver(name) returns an instance of cls.
C17_RegisteredNameResolves ==
    /\ call_op = "register_driver" =>
          IsProtocolSupported(call_protocol, DRIVER_REGISTRY)
    /\ (call_op = "create_driver" /\ call_protocol # ""
            /\ call_protocol = last_reg_name) =>
          (ret_driver = last_reg_class /\ ret_error = "none")

----------------------------------------------------------------------------
(* Claims about the speed setting and the wire packets *)

\* a value limited to 0..255
Saturated(x) == IF x < 0 THEN 0 ELSE IF x > 255 THEN 255 ELSE x

\* C18: set_speed(v) stores v clamped to 0..255; a call whose clamped value
\* equals the stored speed changes nothing and schedules no device write;
\* a mode-command resend is scheduled only by a call that changes the
\* stored speed.
C18_SetSpeedClampsAndSkips ==
    [][ /\ speed' = Saturated(set_speed_arg')
        /\ (set_speed_arg' # set_speed_arg /\ Saturated(set_speed_arg') = speed)
              => UNCHANGED <<speed, driver_bound, driver_current_speed,
                             client_connected, mode_tasks>>
        /\ mode_tasks' > mode_tasks => speed' # speed ]_svars

\* set_speed(300) was called while connected: 255 is stored and a resend
\* is scheduled
C18_Witness ==
    /\ set_speed_arg = 300
    /\ speed = 255
    /\ client_connected
    /\ mode_tasks > 0

\* the positions of R, G, B in each driver's color packet
ColorOffset(cls) == IF cls = "ElkBledomDriver" THEN 4
                    ELSE IF cls = "TuyaDriver" THEN 2 ELSE 3

\* C19: for all integers r, g, b, also below 0 and above 255, the color
\* packet written by each driver's set_color carries r, g, b clamped to
\* 0..255 in its R, G, B positions.
C19_ColorBytesClamped ==
    (pk_call = "set_color" /\ pk_writes # <<>>) =>
        \A k \in 1..3 :
            pk_packet[ColorOffset(pk_driver) + k] = Saturated(pk_args[k])

\* the Tuya driver wrote a color whose inputs were all out of range
C19_Witness ==
    /\ pk_call = "set_color"
    /\ pk_driver = "TuyaDriver"
    /\ pk_args = <<256, -1, 256>>
    /\ pk_result = "true"
    /\ pk_packet = <<1, 3, 255, 0, 255>>

\* C20: for cmd, p1, p2, p3, speed in 0..255 the ELK-BLEDOM frame is the 9
\* bytes 7E 07 05 cmd p1 p2 p3 speed EF; a color command is cmd 03 with
\* (R, G, B), a mode command is cmd 04 with (modeId, 00, 00).
C20_ElkFrame ==
    /\ (pk_call = "build_packet" /\ \A k \in 1..5 : pk_args[k] \in 0..255) =>
          pk_packet = <<126, 7, 5, pk_args[1], pk_args[2], pk_args[3],
                         pk_args[4], pk_args[5], 239>>
    /\ (pk_driver = "ElkBledomDriver" /\ pk_call = "set_color"
            /\ pk_writes # <<>>) =>
          pk_packet = <<126, 7, 5, 3, Saturated(pk_args[1]),
                         Saturated(pk_args[2]), Saturated(pk_args[3]),
                         pk_current_speed, 239>>
    /\ (pk_driver = "ElkBledomDriver" /\ pk_call = "set_mode"
            /\ pk_writes # <<>>) =>
          pk_packet = <<126, 7, 5, 4, pk_args[1] % 256, 0, 0,
                         pk_current_speed, 239>>

\* a mode command for mode 4 at speed 100 has been written
C20_Witness ==
    /\ pk_driver = "ElkBledomDriver"
    /\ pk_call = "set_mode"
    /\ pk_args = <<4, 100>>
    /\ pk_result = "true"
    /\ pk_packet = <<126, 7, 5, 4, 4, 0, 0, 100, 239>>

\* C21: every Triones frame is exactly the 8 bytes 56 AA cmd p1 p2 p3 AA AA;
\* a color command is cmd 01 with (R, G, B), a mode command is cmd 04 with
\* (modeId, remembered speed, 00).
C21_TrionesFrame ==
    (pk_driver = "TrionesDriver" /\ pk_writes # <<>>) =>
        /\ Len(pk_packet) = 8
        /\ SubSeq(pk_packet, 1, 2) = <<86, 170>>
        /\ SubSeq(pk_packet, 7, 8) = <<170, 170>>
        /\ \A k \in 3..6 : pk_packet[k] \in 0..255
        /\ pk_call = "set_color" =>
              pk_packet = <<86, 170, 1, Saturated(pk_args[1]),
                             Saturated(pk_args[2]), Saturated(pk_args[3]),
                             170, 170>>
        /\ pk_call = "set_mode" =>
              pk_packet = <<86, 170, 4, pk_args[1] % 256, pk_current_speed,
                             0, 170, 170>>

\* the Triones driver wrote a mode command for mode 4 at speed 100
C21_Witness ==
    /\ pk_driver = "TrionesDriver"
    /\ pk_call = "set_mode"
    /\ pk_args = <<4, 100>>
    /\ pk_result = "true"
    /\ pk_packet = <<86, 170, 4, 4, 100, 0, 170, 170>>

\* C22: every MagicHome frame is 7E LEN cmd data... EF with LEN the number
\* of data bytes plus one; a color command is cmd 05 with data (R, G, B, 00)
\* and LEN 5, a mode command is cmd 04 with data (modeId, remembered speed,
\* 00, 00).
C22_MagicHomeFrame ==
    (pk_driver = "MagicHomeDriver" /\ pk_writes # <<>>) =>
        /\ Len(pk_packet) >= 4
        /\ pk_packet[1] = 126
        /\ pk_packet[Len(pk_packet)] = 239
        /\ pk_packet[2] = (Len(pk_packet) - 4) + 1
        /\ pk_call = "set_color" =>
              pk_packet = <<126, 5, 5, Saturated(pk_args[1]),
                             Saturated(pk_args[2]), Saturated(pk_args[3]),
                             0, 239>>
        /\ pk_call = "set_mode" =>
              pk_packet = <<126, 5, 4, pk_args[1] % 256, pk_current_speed,
                             0, 0, 239>>

\* the MagicHome driver wrote a mode command for mode 255 at speed 300
C22_Witness ==
    /\ pk_driver = "MagicHomeDriver"
    /\ pk_call = "set_mode"
    /\ pk_args = <<255, 300>>
    /\ pk_writes # <<>>
    /\ pk_packet = <<126, 5, 4, 255, 255, 0, 0, 239>>

\* the position of the speed byte in each driver's mode packet
ModeSpeedOffset(cls) == IF cls = "ElkBledomDriver" THEN 8
                        ELSE IF cls = "TuyaDriver" THEN 4 ELSE 5

\* a step of set_mode(mode_id, speed): the call is recorded and neither the
\* driver nor the transport changes
SetModeStep ==
    /\ pk_call' = "set_mode"
    /\ pk_driver' = pk_driver
    /\ pk_connected' = pk_connected

\* C23 as stated: for every driver, set_mode(mode_id, speed) with speed > 0
\* stores speed clamped to 0..255 and the mode packet written carries it;
\* with speed = 0 the remembered speed is unchanged and the packet carries
\* the previously remembered speed.
C23_SetModeRemembersSpeed ==
    [][ SetModeStep =>
          /\ pk_args'[2] > 0 => pk_current_speed' = Saturated(pk_args'[2])
          /\ pk_args'[2] = 0 => pk_current_speed' = pk_current_speed
          /\ pk_writes' # <<>> =>
                pk_packet'[ModeSpeedOffset(pk_driver)] = pk_current_speed'
      ]_pvars

\* C23 amended: on a connected transport set_mode stores a speed > 0
\* clamped to 0..255, keeps the remembered speed for speed = 0, and writes
\* a mode packet carrying the remembered speed; without a connected
\* transport it returns false, writes nothing and leaves the remembered
\* speed unchanged whatever the speed argument.
C23_SetModeRemembersSpeedWhenConnected ==
    [][ SetModeStep =>
          /\ pk_connected =>
                /\ pk_args'[2] > 0 =>
                      pk_current_speed' = Saturated(pk_args'[2])
                /\ pk_args'[2] = 0 => pk_current_speed' = pk_current_speed
                /\ Len(pk_writes') = 1
                /\ pk_packet'[ModeSpeedOffset(pk_driver)] = pk_current_speed'
          /\ ~pk_connected =>
                /\ pk_current_speed' = pk_current_speed
                /\ pk_writes' = <<>>
                /\ pk_result' = "false"
      ]_pvars

\* the Tuya driver, connected and remembering speed 255, was asked for mode
\* 1 with speed 0 and wrote a packet carrying 255
C23_Witness ==
    /\ pk_driver = "TuyaDriver"
    /\ pk_connected
    /\ pk_call = "set_mode"
    /\ pk_args = <<1, 0>>
    /\ pk_current_speed = 255
    /\ pk_packet = <<2, 2, 1, 255>>

\* a step of set_color(r, g, b): the call is recorded and neither the driver
\* nor the transport changes
SetColorStep ==
    /\ pk_call' = "set_color"
    /\ pk_driver' = pk_driver
    /\ pk_connected' = pk_connected

\* some write of the last command completed without error
SomeWriteOk(writes) == \E k \in 1..Len(writes) : writes[k][2] = "ok"

\* C25: a driver's set_color never raises; without a bound, connected
\* transport it returns false without writing; when the transport write
\* fails it returns false; it returns true only after a write completed
\* without error.
C25_SetColorNeverRaises ==
    [][ SetColorStep =>
          /\ pk_result' \in {"true", "false"}
          /\ ~pk_connected => (pk_result' = "false" /\ pk_writes' = <<>>)
          /\ pk_connected => pk_writes' # <<>>
          /\ pk_result' = "true" <=> SomeWriteOk(pk_writes')
      ]_pvars

\* the Triones driver's set_color failed on both characteristics and
\* answered false
C25_Witness ==
    /\ pk_driver = "TrionesDriver"
    /\ pk_connected
    /\ pk_call = "set_color"
    /\ pk_writes = << <<"primary", "raise">>, <<"alternative", "raise">> >>
    /\ pk_result = "false"

\* C26: for the Triones and MagicHome drivers a color, mode or brightness
\* write that fails on the primary characteristic is retried on the
\* alternate one, and the command reports success if and only if one of
\* the two writes succeeded.
C26_EveryCommandRetries ==
    ( /\ pk_driver \in {"TrionesDriver", "MagicHomeDriver"}
      /\ pk_call \in {"set_color", "set_mode", "set_brightness"}
      /\ pk_writes # <<>> ) =>
        /\ pk_writes[1] = <<"primary", "raise">> =>
              (Len(pk_writes) = 2 /\ pk_writes[2][1] = "alternative")
        /\ pk_result = "true" <=> SomeWriteOk(pk_writes)

\* the position of the speed byte in a packet of the ELK-BLEDOM and
\* MagicHome drivers; 0 for the MagicHome color packet 7E 05 05 R G B 00 EF,
\* which has none
SpeedByteOffset(cls, call) ==
    IF cls = "ElkBledomDriver" THEN 8
    ELSE IF call = "set_mode" THEN 5 ELSE 0

\* C24: every packet the ELK-BLEDOM and MagicHome drivers hand to the
\* device, color packets as well as mode packets, carries the controller's
\* current speed, also when the speed was set before the device was
\* connected and on connections made after a reconnect.
C24_PacketsCarryControllerSpeed ==
    [][ (wire_packet' # wire_packet \/ wire_call' # wire_call) =>
          LET off == SpeedByteOffset(bound_class', wire_call')
          IN  off # 0 /\ wire_packet'[off] = speed' ]_svars

\* C27: every exception that reaches the except block of the supervising
\* cycle is a connection timeout or a generic error; a timeout sets the
\* status error message to 'GATT CONN TIMEOUT', a generic error to the first
\* 100 characters of the exception text, and both go on to the same
\* recovery sleep; in every reachable state the error message is absent or
\* at most 100 characters long.
C27_TwoKindsOfError ==
    /\ [](status_error_message = "none" \/ Len(status_error_message) <= 100)
    /\ [][ raised' # NoException =>
             /\ pc' = "recover_sleep"
             /\ sleep_for' = RecoverySleep(auto_reconnect, current_backoff)
             /\ ~status_is_connected'
             /\ IF TimeoutKind[raised']
                THEN status_error_message' = "GATT CONN TIMEOUT"
                ELSE /\ Len(status_error_message') =
                          Min(100, Len(raised'.text))
                     /\ status_error_message' =
                          SubSeq(raised'.text, 1, Len(status_error_message'))
       ]_vars

\* a generic error with a text of more than 100 characters was caught: the
\* worker sleeps on the recovery path with a message of 100 characters
C27_Witness ==
    /\ pc = "recover_sleep"
    /\ raised \in ExceptionInputs
    /\ ~TimeoutKind[raised]
    /\ Len(raised.text) > 100
    /\ Len(status_error_message) = 100

\* where the worker goes on from each notification point when the callback
\* returns normally
AfterNotification(p) ==
    CASE p = "loop_top" -> {"search"}
      [] p = "search" -> {"connecting", "miss_sleep"}
      [] p = "connecting" -> {"comm_top", "recover_sleep"}
      [] p = "comm_top" -> {"exec_mode"}
      [] p = "manual_send" -> {"comm_sleep"}
      [] p = "cpu_send" -> {"comm_sleep"}
      [] p = "breath_send" -> {"breath_check"}
      [] p = "rainbow_send" -> {"rainbow_check"}
      [] OTHER -> {}

\* C28: a status callback or color-received callback that raises never
\* terminates the worker and never changes the supervisor's course: the
\* worker goes on from the point of notification, the callback's exception
\* does not reach the recovery path, and the mode, and for a color callback
\* the connected flag and the backoff, are what they were.
C28_CallbackFailureContained ==
    [][ (pc' # pc /\ callback' = "raise") =>
          /\ pc' \in AfterNotification(pc)
          /\ pc' # "done"
          /\ raised' # CallbackError
          /\ pc' = "recover_sleep" => raised' \in ExceptionInputs
          /\ current_mode' = current_mode
          /\ is_running' = is_running
          /\ pc \in {"manual_send", "cpu_send", "breath_send", "rainbow_send"}
                => /\ status_is_connected' = status_is_connected
                   /\ current_backoff' = current_backoff
          /\ pc = "comm_top"
                => /\ status_is_connected' = status_is_connected
                   /\ current_backoff' = current_backoff
                   /\ status_error_message' = status_error_message
          /\ pc = "connecting" /\ pc' = "comm_top" => status_is_connected'
      ]_vars

\* the "Connected" notification raised in the subscriber and the worker is
\* at the head of the communication loop, connected
C28_Witness ==
    /\ callback = "raise"
    /\ pc = "comm_top"
    /\ status_is_connected
    /\ raised = NoException

\* C29: a failure of the periodic RSSI read or of the CPU sample leaves the
\* connected flag, the error message and current_backoff unchanged and does
\* not enter the recovery path; after a failed RSSI read the same iteration
\* goes on to the Effect Engine, after a failed CPU sample it goes on to
\* its sleep.
C29_TelemetryFailureIgnored ==
    [][ (pc' # pc /\ telemetry' \in {"rssi_failed", "cpu_failed"}) =>
          /\ status_is_connected' = status_is_connected
          /\ status_error_message' = status_error_message
          /\ current_backoff' = current_backoff
          /\ raised' = NoException
          /\ telemetry' = "rssi_failed" =>
                (pc = "comm_top" /\ pc' = "exec_mode")
          /\ telemetry' = "cpu_failed" =>
                (pc = "cpu_send" /\ pc' = "comm_sleep"
                    /\ sleep_for' = SleepQuantum)
      ]_vars

\* the CPU sample failed and the worker sleeps at the end of the iteration,
\* still connected
C29_Witness ==
    /\ telemetry = "cpu_failed"
    /\ pc = "comm_sleep"
    /\ status_is_connected
    /\ link_up

\* C30: a status value delivered to a subscriber is a snapshot: no later
\* update of the supervisor changes a field of the delivered value, which
\* keeps the fields it had when it was handed over.
C30_DeliveredStatusIsSnapshot ==
    delivered # "none" => Deref(delivered) = handed_over

----------------------------------------------------------------------------
(* Claims about the Effect Engine *)

\* C31: in MANUAL mode every call of _execute_mode hands exactly one color
\* to the driver, also when neither the color nor the brightness changed
\* since the previous call, and unless set_color or set_brightness ran
\* while the call was in progress that color is the current target color
\* scaled by the current brightness: a change made by the UI thread shows
\* in the packet of the following iteration at the latest.
C31_ManualResendsScaledColor ==
    (engine = "MANUAL" /\ epc = "idle") =>
        /\ Len(written) = 1
        /\ ~touched =>
             written[1] = MakeColor((current_color[1] * self_brightness) \div 4,
                                    (current_color[2] * self_brightness) \div 4,
                                    (current_color[3] * self_brightness) \div 4)

\* a MANUAL iteration that followed a brightness change made before it began
\* has written the dimmed color
C31_Witness ==
    /\ engine = "MANUAL"
    /\ epc = "idle"
    /\ ~touched
    /\ self_brightness = 2
    /\ current_color = <<255, 100, 0>>
    /\ written = << <<127, 50, 0>> >>

\* C32: in CPU mode the color handed to _send_color is cyan (0,200,255) for a
\* sample below 40, violet (138,43,226) for a sample from 40 to 70
\* inclusive, and red (255,0,0) for a sample above 70.
C32_CpuRampThresholds ==
    engine = "CPU" => arg_color = CpuColor_Inclusive(cpu_sample)

\* C33: of the DeviceConfig the supervisor changes nothing but
\* write_char_uuid, and that only in _initialize_driver, only while the
\* field is empty, and then to the write UUID of the driver it resolved: a
\* configured UUID is never overwritten, and protocol and target_mac keep
\* their values over every discovery.
C33_ConfigOnlyBackfilled ==
    [][ /\ config_protocol' = config_protocol
        /\ target_mac' = target_mac
        /\ write_char_uuid' # write_char_uuid =>
             /\ write_char_uuid = ""
             /\ call_op' = "initialize_driver"
             /\ write_char_uuid' = WriteUuidOf(ret_driver')
      ]_fvars

\* the configuration of test_controller_updates_uuid_from_driver after the
\* discovery: the empty UUID was filled in from the Tuya driver
C33_Witness ==
    /\ call_op = "initialize_driver"
    /\ config_protocol = "tuya"
    /\ target_mac = "00:11:22:33:44:55"
    /\ ret_driver = "TuyaDriver"
    /\ write_char_uuid = TUYA_WRITE_CHAR_UUID

----------------------------------------------------------------------------
(* Claims about the communication loop and the status *)

\* the worker is inside the while loop of the async with block
InCommunicating ==
    pc \in {"comm_top", "exec_mode", "manual_send", "cpu_send",
            "breath_check", "breath_send", "rainbow_check", "rainbow_send",
            "comm_sleep"}

\* C34: in every mode, once the link has dropped or a disconnect was
\* requested while the worker is inside the communication loop, the worker
\* eventually leaves the loop and searches again, unless the controller is
\* stopped first: every _execute_mode call returns to the checks at the
\* head of the loop.
C34_DisconnectLeavesLoop ==
    (InCommunicating /\ is_running /\ (~link_up \/ force_disconnect))
        ~> (pc = "search" \/ ~is_running)

\* C35: a disconnect request ends only the connection that is open when the
\* worker observes it: once that connection has been closed for it, no
\* later connection is ended by the same request, so the next connection
\* stays in the communication loop while the link is up and the controller
\* runs.
C35_DisconnectServedOnce ==
    [](pc = "teardown" /\ exit_reason = "user_disconnect"
         => [](pc = "close" => exit_reason # "user_disconnect"))

\* C38: the status emitted when the worker reaches CONNECTED carries no
\* error message, also after an earlier failure, so that is_healthy()
\* (connected and no error message) is true from then on.
C38_ConnectedStatusHasNoError ==
    [][(pc = "connecting" /\ pc' = "comm_top")
         => (status_is_connected' /\ status_error_message' = "none")]_vars

\* C40: status.is_connected is true only while a transport connection is
\* open: it is false whenever the worker searches, waits after a miss,
\* sleeps in recovery, has left the communication loop and its transport
\* is closed, or has terminated.
C40_ConnectedFlagOnlyWhileOpen ==
    pc \in {"search", "miss_sleep", "recover_sleep", "teardown", "done"}
        => ~status_is_connected

----------------------------------------------------------------------------
(* Claims about the worker threads *)

\* C36: over every interleaving of start() and stop() calls with the
\* threads they create, at most one thread executes _main_loop at any
\* time; a start() that finds the controller running creates no thread, and
\* a start() after a stop() whose join timed out leaves the old worker as
\* the only one.
C36_SingleWorker ==
    /\ [](Cardinality(Looping(threads)) <= 1)
    /\ [][(last_call # "start_ignored" /\ last_call' = "start_ignored")
            => threads' = threads]_hvars

\* the old worker outlived the join timeout of stop(); the thread of the
\* next start() found the loop running and ended
C36_Witness ==
    /\ running_flag
    /\ last_call = "start"
    /\ threads[1] = "looping"
    /\ threads[2] = "crashed"

----------------------------------------------------------------------------
(* Claims about the controller of src/ble_controller.py *)

\* C37: every completed iteration of the communication loop of
\* src/ble_controller.py has executed the current mode exactly once and has
\* then slept the 0.1 s quantum, whether its signal-strength read raised
\* or not.
C37_LegacyIterationExecutesAndSleeps ==
    legacy_completed > 0 =>
        /\ legacy_last.executed = 1
        /\ legacy_last.slept

----------------------------------------------------------------------------
(* Claims about the reported mode *)

\* C39: whenever every mode command scheduled by set_mode and set_speed
\* has run, whether its write succeeded or failed, the mode in the status
\* is the controller's selected mode.
C39_ReportedModeIsSelectedMode ==
    mode_queue = <<>> => status.current_mode = selected_mode

============================================================================
